---- MODULE Spec2Model ----
(***************************************************************************)
(* The advice pipeline of the finance advisor (advisor/utils.py and        *)
(* advisor/views.py): prompt building, the model client query_ollama with  *)
(* its local fallback generator, the response formatter, and the two       *)
(* orchestrators (one-shot advice generation and the chat turn) over the   *)
(* stored InvestmentAdvice and ChatMessage rows.                           *)
(*                                                                         *)
(* A Python str is modelled as the sequence of its lines, str.split("\n"): *)
(* <<"a", "", "b">> is "a\n\nb" and <<"">> is the empty string.  Inside a   *)
(* line the characters are those of the source, and the operations on a    *)
(* line work on its characters.                                            *)
(***************************************************************************)
EXTENDS Integers, Sequences, FiniteSets, TLC

-----------------------------------------------------------------------------
(* Characters and single-line strings *)

StartsWithS(s, p) == Len(s) >= Len(p) /\ SubSeq(s, 1, Len(p)) = p

EndsWithS(s, p) == Len(s) >= Len(p) /\ SubSeq(s, Len(s) - Len(p) + 1, Len(s)) = p

\* The positions at which p occurs in s, from position from on.
OccursS(s, p, from) ==
    {i \in from..(Len(s) - Len(p) + 1) : SubSeq(s, i, i + Len(p) - 1) = p}

MinOf(S) == CHOOSE i \in S : \A j \in S : i <= j

MaxOf(S) == CHOOSE i \in S : \A j \in S : i >= j

\* str.find: the first position of p in s at or after from, 0 when there is none.
FindS(s, p, from) ==
    LET hits == OccursS(s, p, from) IN IF hits = {} THEN 0 ELSE MinOf(hits)

\* str.rfind: the last position of p in s, 0 when there is none.
RFindS(s, p) ==
    LET hits == OccursS(s, p, 1) IN IF hits = {} THEN 0 ELSE MaxOf(hits)

InS(p, s) == OccursS(s, p, 1) # {}

\* str.replace(old, new): every occurrence, left to right, not overlapping.
RECURSIVE ReplaceS(_, _, _)
ReplaceS(s, old, new) ==
    LET From(i) ==
            IF i = 0 THEN s
            ELSE SubSeq(s, 1, i - 1) \o new
                 \o ReplaceS(SubSeq(s, i + Len(old), Len(s)), old, new)
    IN From(FindS(s, old, 1))

\* s.replace(old, new) for each <<old, new>> of pairs, in their order
RECURSIVE ReplaceEach(_, _)
ReplaceEach(s, pairs) ==
    IF Len(pairs) = 0 THEN s
    ELSE ReplaceEach(ReplaceS(s, pairs[1][1], pairs[1][2]), Tail(pairs))

UpperAlpha == "ABCDEFGHIJKLMNOPQRSTUVWXYZ"

LowerAlpha == "abcdefghijklmnopqrstuvwxyz"

\* c.lower() and c.upper() of one character
LowerChar(c) ==
    LET At(i) == IF i = 0 THEN c ELSE SubSeq(LowerAlpha, i, i)
    IN At(FindS(UpperAlpha, c, 1))

UpperChar(c) ==
    LET At(i) == IF i = 0 THEN c ELSE SubSeq(UpperAlpha, i, i)
    IN At(FindS(LowerAlpha, c, 1))

IsAlpha(c) == InS(c, UpperAlpha) \/ InS(c, LowerAlpha)

\* str.lower of one line.
RECURSIVE LowerS(_)
LowerS(s) ==
    IF Len(s) = 0 THEN s
    ELSE IF Len(s) = 1 THEN LowerChar(s)
    ELSE LET h == Len(s) \div 2 IN
         LowerS(SubSeq(s, 1, h)) \o LowerS(SubSeq(s, h + 1, Len(s)))

\* str.upper of one line.
RECURSIVE UpperS(_)
UpperS(s) ==
    IF Len(s) = 0 THEN s
    ELSE IF Len(s) = 1 THEN UpperChar(s)
    ELSE LET h == Len(s) \div 2 IN
         UpperS(SubSeq(s, 1, h)) \o UpperS(SubSeq(s, h + 1, Len(s)))

\* str.title: a letter is upper-cased after a character that is no letter
\* (and at the start), lower-cased after a letter.
RECURSIVE TitleIn(_, _, _)
TitleIn(s, lo, hi) ==
    IF lo > hi THEN ""
    ELSE IF lo = hi THEN
        LET c == SubSeq(s, lo, lo)
            first == lo = 1 \/ ~IsAlpha(SubSeq(s, lo - 1, lo - 1))
        IN IF first THEN UpperChar(c) ELSE LowerChar(c)
    ELSE LET mid == (lo + hi) \div 2 IN
         TitleIn(s, lo, mid) \o TitleIn(s, mid + 1, hi)

TitleS(s) == TitleIn(s, 1, Len(s))

IsSpaceChar(c) == c \in {" ", "\t", "\r", "\f"}

\* str.strip of one line: leading and trailing whitespace removed.
StripS(s) ==
    LET keep == {i \in 1..Len(s) : ~IsSpaceChar(SubSeq(s, i, i))} IN
    IF keep = {} THEN "" ELSE SubSeq(s, MinOf(keep), MaxOf(keep))

\* re.sub(r'<[^>]*>', '', s) on one line: every "<" up to the next ">" goes.
RECURSIVE StripTagsS(_)
StripTagsS(s) ==
    LET i == FindS(s, "<", 1) IN
    IF i = 0 THEN s
    ELSE LET j == FindS(s, ">", i + 1) IN
         IF j = 0 THEN s
         ELSE SubSeq(s, 1, i - 1) \o StripTagsS(SubSeq(s, j + 1, Len(s)))

-----------------------------------------------------------------------------
(* Strings as sequences of lines *)

\* The text of a single-line string.
Txt(s) == <<s>>

EmptyText == <<"">>

\* a + b
Cat(a, b) ==
    SubSeq(a, 1, Len(a) - 1) \o <<a[Len(a)] \o b[1]>> \o SubSeq(b, 2, Len(b))

\* "\n".join(parts), parts a non-empty sequence of texts
RECURSIVE JoinNL(_)
JoinNL(parts) ==
    IF Len(parts) = 0 THEN EmptyText
    ELSE IF Len(parts) = 1 THEN parts[1]
    ELSE parts[1] \o JoinNL(Tail(parts))

\* len(t): the characters of the lines and the newlines between them
RECURSIVE CharLen(_)
CharLen(t) ==
    IF Len(t) = 1 THEN Len(t[1]) ELSE Len(t[1]) + 1 + CharLen(Tail(t))

IsEmptyText(t) == t = EmptyText

-----------------------------------------------------------------------------
(* Model choices and display names: advisor/models.py *)

\* models.py 11-17: RISK_CHOICES, get_risk_tolerance_display
RISK_CHOICES ==
    [c \in {"1", "2", "3", "4", "5"} |->
        CASE c = "1" -> "Very Conservative"
          [] c = "2" -> "Conservative"
          [] c = "3" -> "Neutral"
          [] c = "4" -> "Aggressive"
          [] c = "5" -> "Extremely Aggressive"]

\* models.py 20-26: INVESTMENT_GOAL_CHOICES, get_investment_goal_display
INVESTMENT_GOAL_CHOICES ==
    [g \in {"retirement", "wealth", "education", "home", "other"} |->
        CASE g = "retirement" -> "Retirement Planning"
          [] g = "wealth" -> "Wealth Building"
          [] g = "education" -> "Education Funding"
          [] g = "home" -> "Home Purchase"
          [] g = "other" -> "Other Goals"]

get_risk_tolerance_display(profile) == RISK_CHOICES[profile.risk_tolerance]

get_investment_goal_display(profile) == INVESTMENT_GOAL_CHOICES[profile.investment_goal]

\* views.py 109-110, models.py 164-173: the yearly figures are twelve monthly ones
MonthsPerYear == 12

-----------------------------------------------------------------------------
(* Numbers to text.  Money is a whole number of rupees. *)

TwoDigits(n) == IF n < 10 THEN "0" \o ToString(n) ELSE ToString(n)

ThreeDigits(n) ==
    IF n < 10 THEN "00" \o ToString(n)
    ELSE IF n < 100 THEN "0" \o ToString(n) ELSE ToString(n)

\* f"{n/d:.2f}": n/d to two decimals, to the nearest hundredth (an exact half
\* goes to the even hundredth).
Fixed2(n, d) ==
    LET q == (n * 100) \div d
        r == (n * 100) % d
        up == 2 * r > d \/ (2 * r = d /\ q % 2 = 1)
        cents == IF up THEN q + 1 ELSE q
    IN ToString(cents \div 100) \o "." \o TwoDigits(cents % 100)

\* f"{n:,}" for 0 <= n < 1000000
Grouped(n) ==
    IF n >= 1000 THEN ToString(n \div 1000) \o "," \o ThreeDigits(n % 1000)
    ELSE ToString(n)

\* str(float(n)) of a whole number
FloatStr(n) == ToString(n) \o ".0"

Crore == 10000000

Lakh == 100000

\* utils.py 126-150: format_currency(value), include_rupee_symbol=True
format_currency(value) ==
    LET formatted ==
            IF value >= Crore THEN Fixed2(value, Crore) \o " crore"
            ELSE IF value >= Lakh THEN Fixed2(value, Lakh) \o " lakh"
            ELSE Grouped(value) \o ".00"
    IN "₹" \o formatted

-----------------------------------------------------------------------------
(* Prompt Builder *)

\* views.py 351-359: profile_data of generate_investment_advice
profile_data(profile) ==
    [name |-> profile.name,
     age |-> ToString(profile.age),
     occupation |-> profile.occupation,
     annual_income |->
        IF profile.annual_income # 0 THEN FloatStr(profile.annual_income)
        ELSE FloatStr(profile.monthly_income * MonthsPerYear),
     savings |->
        IF profile.savings # 0 THEN FloatStr(profile.savings)
        ELSE FloatStr(profile.monthly_savings * MonthsPerYear),
     risk_tolerance |-> get_risk_tolerance_display(profile),
     investment_goal |-> get_investment_goal_display(profile)]

\* utils.py 8-22
format_prompt(user_data) ==
    << "",
       "    Provide financial advice for a person with the following details:",
       "    - Name: " \o user_data.name,
       "    - Age: " \o user_data.age,
       "    - Occupation: " \o user_data.occupation,
       "    - Annual Income: " \o user_data.annual_income,
       "    - Savings: " \o user_data.savings,
       "    - Risk Tolerance: " \o user_data.risk_tolerance,
       "    - Investment Goal: " \o user_data.investment_goal,
       "    " >>

\* views.py 370-376
focus_areas ==
    [g \in {"retirement", "wealth", "education", "home", "other"} |->
        CASE g = "retirement" ->
                <<"long-term wealth building", "retirement planning", "pension optimization">>
          [] g = "wealth" ->
                <<"wealth accumulation", "portfolio diversification", "high-growth investments">>
          [] g = "education" ->
                <<"education funding", "systematic investment for education",
                  "tax-efficient education savings">>
          [] g = "home" ->
                <<"real estate investment", "mortgage planning", "down payment strategies">>
          [] g = "other" ->
                <<"financial independence", "passive income streams",
                  "balanced portfolio management">>]

\* views.py 380-381: focus_areas.get(goal_key, focus_areas['other'])
FocusCandidates(profile) ==
    LET goal_key == LowerS(profile.investment_goal) IN
    IF goal_key \in DOMAIN focus_areas THEN focus_areas[goal_key]
    ELSE focus_areas["other"]

\* views.py 384-390
market_perspectives ==
    << "In the current market conditions",
       "Given recent economic trends",
       "With today's market volatility",
       "Considering the present economic climate",
       "In light of recent market developments" >>

\* views.py 363-364 and utils.py 240: datetime.now() as the requests see it
current_date == "November 01, 2026"

current_time == "21:05"

\* views.py 406
AdviceCountText(previous_advice_count) ==
    IF previous_advice_count = 0 THEN "First advice"
    ELSE "Advice #" \o ToString(previous_advice_count + 1)

\* views.py 398-415
enhanced_prompt(base_prompt, market_perspective, focus_area, previous_advice_count) ==
    Cat(Cat(<<"", "    ">>, base_prompt),
        << "",
           "    ",
           "    Additional Context:",
           "    - Current Date: " \o current_date,
           "    - Current Time: " \o current_time,
           "    - Market Context: " \o market_perspective,
           "    - Focus Area: " \o focus_area,
           "    - Advice Count: " \o AdviceCountText(previous_advice_count),
           "    ",
           "    Please provide:",
           "    1. A personalized investment strategy with specific focus on " \o focus_area,
           "    2. Recommended investments based on their risk tolerance and current market conditions",
           "    3. Expected returns and timeframes",
           "    4. At least one unique recommendation you haven't given before",
           "    ",
           "    Format your response with clear headings and bullet points.",
           "    " >>)

\* views.py 250-255: chat_history_text from the list of {role, content}
RECURSIVE HistoryLines(_)
HistoryLines(chat_history) ==
    IF Len(chat_history) = 0 THEN EmptyText
    ELSE Cat(Cat(Txt(UpperS(chat_history[1].role) \o ": "), chat_history[1].content),
             Cat(<<"", "">>, HistoryLines(Tail(chat_history))))

chat_history_text(chat_history) ==
    IF Len(chat_history) = 0 THEN EmptyText
    ELSE Cat(<<"Recent conversation history:", "">>, HistoryLines(chat_history))

\* views.py 239-248
ChatAnnualIncome(profile) ==
    IF profile.annual_income # 0 THEN format_currency(profile.annual_income)
    ELSE format_currency(profile.monthly_income * MonthsPerYear)

ChatSavings(profile) ==
    IF profile.savings # 0 THEN format_currency(profile.savings)
    ELSE format_currency(profile.monthly_savings * MonthsPerYear)

\* views.py 259-275
chat_prompt(profile, chat_history, user_message) ==
    Cat(Cat(Cat(Cat(
        << "",
           "        Context: This user has submitted a financial profile with the following details:",
           "        - Name: " \o profile.name,
           "        - Age: " \o ToString(profile.age),
           "        - Occupation: " \o profile.occupation,
           "        - Annual Income: " \o ChatAnnualIncome(profile),
           "        - Savings: " \o ChatSavings(profile),
           "        - Risk Tolerance: " \o get_risk_tolerance_display(profile),
           "        - Investment Goal: " \o get_investment_goal_display(profile),
           "        ",
           "        " >>,
        chat_history_text(chat_history)),
        << "",
           "        ",
           "        User asks: " >>),
        user_message),
        << "",
           "        ",
           "        Provide a helpful, accurate, and personalized response addressing their question about finances or investments. ",
           "        Keep the response concise yet informative. Use clear formatting with bullet points or numbered lists if applicable.",
           "        " >>)

-----------------------------------------------------------------------------
(* The stored profiles and the prompts built from them *)

P1 ==
    [user |-> "u1", name |-> "Asha", age |-> 30, occupation |-> "Engineer",
     monthly_income |-> 50000, monthly_expenses |-> 30000, monthly_savings |-> 15000,
     annual_income |-> 600000, savings |-> 180000,
     risk_tolerance |-> "1", investment_goal |-> "retirement"]

P2 ==
    [user |-> "u2", name |-> "Ravi Kumar", age |-> 45, occupation |-> "Shop owner",
     monthly_income |-> 20000, monthly_expenses |-> 12000, monthly_savings |-> 4000,
     annual_income |-> 240000, savings |-> 48000,
     risk_tolerance |-> "3", investment_goal |-> "other"]

\* How many of the market perspectives random.choice draws from.
MaxPerspectives == 2

\* How many of the focus areas of a goal random.choice draws from.
MaxFocus == 2

\* views.py 391: the draws of random.choice(market_perspectives)
PerspectivesDrawn ==
    {market_perspectives[i] :
        i \in {j \in DOMAIN market_perspectives : j <= MaxPerspectives}}

\* views.py 381: the draws of random.choice(focus)
FocusDrawn(profile) ==
    {FocusCandidates(profile)[i] :
        i \in {j \in DOMAIN FocusCandidates(profile) : j <= MaxFocus}}

\* The lines of the prompts of the two builders for the stored profiles,
\* before any chat history and message.
PromptLines ==
    UNION {{chat_prompt(p, <<>>, EmptyText)[i] :
               i \in DOMAIN chat_prompt(p, <<>>, EmptyText)} : p \in {P1, P2}}
    \cup UNION {{enhanced_prompt(format_prompt(profile_data(p)), m, f, 0)[i] :
                    i \in DOMAIN enhanced_prompt(format_prompt(profile_data(p)), m, f, 0)} :
                 p \in {P1, P2}, m \in PerspectivesDrawn,
                 f \in FocusDrawn(P1) \cup FocusDrawn(P2)}

-----------------------------------------------------------------------------
(* Response Formatter: utils.py 78-123 *)

\* utils.py 121, views.py 286 and 427: the outer container
WrapperOpen == "<div class=\"advice-content\">"

WrapperClose == "</div>"

\* utils.py 84: the wrapper as escaped markup
EscapedWrapper == "&lt;div class=\"advice-content\"&gt;"

\* utils.py 87: html.unescape, for the entities of escaped markup; "&amp;" is
\* taken last, so that "&amp;lt;" becomes "&lt;" as in one pass.
UnescapeS(l) ==
    ReplaceEach(l, << <<"&lt;", "<">>, <<"&gt;", ">">>, <<"&quot;", "\"">>,
                      <<"&#x27;", "'">>, <<"&amp;", "&">> >>)

\* The first place (line, column) at or after (line i, column c) where p occurs,
\* <<0, 0>> when there is none.
FindFrom(t, p, i, c) ==
    LET here == IF i \in DOMAIN t THEN FindS(t[i], p, c) ELSE 0
        later == {j \in DOMAIN t : j > i /\ InS(p, t[j])}
    IN IF here # 0 THEN <<i, here>>
       ELSE IF later = {} THEN <<0, 0>>
       ELSE <<MinOf(later), FindS(t[MinOf(later)], p, 1)>>

\* The text from (line i, column a) up to but without (line j, column b).
Between(t, i, a, j, b) ==
    IF i = j THEN <<SubSeq(t[i], a, b - 1)>>
    ELSE <<SubSeq(t[i], a, Len(t[i]))>> \o SubSeq(t, i + 1, j - 1)
         \o <<SubSeq(t[j], 1, b - 1)>>

\* utils.py 97: re.sub(r'(\*\*.*?\*\*)', r'\1\n', s) on one line: a line end
\* after every "**...**".
RECURSIVE BoldBreakS(_)
BoldBreakS(l) ==
    LET a == FindS(l, "**", 1)
        b == IF a = 0 THEN 0 ELSE FindS(l, "**", a + 2)
    IN IF b = 0 THEN <<l>>
       ELSE <<SubSeq(l, 1, b + 1)>> \o BoldBreakS(SubSeq(l, b + 2, Len(l)))

IsDigit(c) == c \in {"0", "1", "2", "3", "4", "5", "6", "7", "8", "9"}

\* The first position of the run of digits that ends at position i of l.
RECURSIVE RunStart(_, _)
RunStart(l, i) ==
    IF i > 1 /\ IsDigit(SubSeq(l, i - 1, i - 1)) THEN RunStart(l, i - 1) ELSE i

\* The pieces of l cut before each position of cuts (ascending).
RECURSIVE CutBefore(_, _, _)
CutBefore(l, from, cuts) ==
    IF cuts = {} THEN <<SubSeq(l, from, Len(l))>>
    ELSE LET c == MinOf(cuts) IN
         <<SubSeq(l, from, c - 1)>> \o CutBefore(l, c, cuts \ {c})

\* utils.py 100: re.sub(r'(\d+\.\s)', r'\n\1', s) on one line: a line end
\* before every run of digits that a "." and a whitespace character follow; the
\* end of a line that is not the last counts as the whitespace.
NumberBreakS(l, last) ==
    LET dots == {i \in 2..Len(l) :
                    /\ SubSeq(l, i, i) = "."
                    /\ IsDigit(SubSeq(l, i - 1, i - 1))
                    /\ IF i = Len(l) THEN ~last
                       ELSE IsSpaceChar(SubSeq(l, i + 1, i + 1))}
    IN CutBefore(l, 1, {RunStart(l, i - 1) : i \in dots})

\* utils.py 106-108
allowed_tags ==
    {"p", "h1", "h2", "h3", "h4", "b", "i", "strong", "em", "ul", "ol", "li", "br",
     "table", "thead", "tbody", "tr", "th", "td", "hr", "div", "span"}

\* The elements Markdown takes as raw HTML blocks when they open a line.
BlockLevelTags ==
    {"p", "div", "h1", "h2", "h3", "h4", "h5", "h6", "ul", "ol", "li", "table",
     "thead", "tbody", "tr", "th", "td", "blockquote", "pre", "hr", "script",
     "form", "section"}

VoidTags == {"br", "hr"}

IsNameChar(c) == IsAlpha(c) \/ IsDigit(c)

\* The end of the name that starts at position i of l.
RECURSIVE NameEnd(_, _)
NameEnd(l, i) ==
    IF i <= Len(l) /\ IsNameChar(SubSeq(l, i, i)) THEN NameEnd(l, i + 1) ELSE i - 1

\* The tags of a line, in order: [from, to, name, closing] for each "<" that a
\* name (after an optional "/") and later a ">" follow.
RECURSIVE TagsFrom(_, _)
TagsFrom(l, from) ==
    LET At(i) ==
            IF i = 0 THEN <<>>
            ELSE LET closing == SubSeq(l, i + 1, i + 1) = "/"
                     Named(n0) ==
                         LET Shut(n1, j) ==
                                 IF n1 < n0 \/ j = 0 THEN TagsFrom(l, i + 1)
                                 ELSE <<[from |-> i, to |-> j,
                                         name |-> LowerS(SubSeq(l, n0, n1)),
                                         closing |-> closing]>>
                                      \o TagsFrom(l, j + 1)
                         IN Shut(NameEnd(l, n0), FindS(l, ">", i + 1))
                 IN Named(IF closing THEN i + 2 ELSE i + 1)
    IN At(FindS(l, "<", from))

TagsOf(l) == TagsFrom(l, 1)

\* How many elements a line with these tags leaves open: its opening tags less
\* its closing ones.
LineDelta(tags) ==
    Cardinality({k \in DOMAIN tags : ~tags[k].closing /\ tags[k].name \notin VoidTags})
    - Cardinality({k \in DOMAIN tags : tags[k].closing})

\* A line that opens with a block-level element (after at most three spaces).
IsRawStart(l, tags) ==
    /\ Len(tags) > 0
    /\ tags[1].from <= 4
    /\ SubSeq(l, 1, tags[1].from - 1) \in {"", " ", "  ", "   "}
    /\ ~tags[1].closing
    /\ tags[1].name \in BlockLevelTags

IsBlankLine(l) == \A i \in 1..Len(l) : SubSeq(l, i, i) = " "

\* A paragraph of plain lines under the nl2br extension.
Paragraph(para) ==
    [k \in DOMAIN para |->
        (IF k = 1 THEN "<p>" ELSE "") \o para[k]
        \o (IF k = Len(para) THEN "</p>" ELSE "<br />")]

\* The entities bleach leaves as they are.
KeptEntities == {"&amp;", "&lt;", "&gt;", "&quot;"}

IsEntityAt(l, i) ==
    \E e \in KeptEntities :
        i + Len(e) - 1 <= Len(l) /\ SubSeq(l, i, i + Len(e) - 1) = e

\* The text between tags as bleach writes it: "&" that starts no entity
\* becomes "&amp;", "<" and ">" become "&lt;" and "&gt;".
RECURSIVE EscapeTextS(_)
EscapeTextS(s) ==
    IF Len(s) = 0 THEN s
    ELSE IF Len(s) = 1 THEN
        (IF s = "<" THEN "&lt;" ELSE IF s = ">" THEN "&gt;"
         ELSE IF s = "&" THEN "&amp;" ELSE s)
    ELSE LET Halves(h) ==
                 EscapeTextS(SubSeq(s, 1, h)) \o EscapeTextS(SubSeq(s, h + 1, Len(s)))
             Entity(amp, semi) ==
                 EscapeTextS(SubSeq(s, 1, amp - 1)) \o SubSeq(s, amp, semi)
                 \o EscapeTextS(SubSeq(s, semi + 1, Len(s)))
             At(amp) ==
                 IF amp = 0 THEN Halves(Len(s) \div 2)
                 ELSE IF IsEntityAt(s, amp) THEN Entity(amp, FindS(s, ";", amp))
                 ELSE EscapeTextS(SubSeq(s, 1, amp - 1)) \o "&amp;"
                      \o EscapeTextS(SubSeq(s, amp + 1, Len(s)))
         IN At(FindS(s, "&", 1))

\* utils.py 109: allowed_attrs == {'*': ['class', 'style']}
allowed_attrs == {"class", "style"}

\* The attributes of a tag, in order, from the text s that follows its name:
\* each is written name="value".
RECURSIVE AttrsOf(_)
AttrsOf(s) ==
    LET Parse(body) ==
            LET Valued(eq) ==
                    LET Shut(close) ==
                            IF close = 0 THEN <<>>
                            ELSE <<[name |-> LowerS(SubSeq(body, 1, eq - 1)),
                                    value |-> SubSeq(body, eq + 2, close - 1)]>>
                                 \o AttrsOf(SubSeq(body, close + 1, Len(body)))
                    IN IF eq = 0 THEN <<>> ELSE Shut(FindS(body, "\"", eq + 2))
            IN Valued(FindS(body, "=\"", 1))
    IN Parse(StripS(s))

\* The attributes as bleach writes them: those of the allow-list stay, and,
\* no css_sanitizer being given, the value of a style attribute is emptied.
\* A faulty variant: every attribute is kept.
RECURSIVE CleanAttrs_KeepAll(_, _)
CleanAttrs_KeepAll(attrs, k) ==
    IF k > Len(attrs) THEN ""
    ELSE " " \o attrs[k].name \o "=\"" \o attrs[k].value \o "\""
         \o CleanAttrs_KeepAll(attrs, k + 1)

RECURSIVE CleanAttrs(_, _)
CleanAttrs(attrs, k) ==
    IF k > Len(attrs) THEN ""
    ELSE (IF attrs[k].name \notin allowed_attrs THEN ""
          ELSE " " \o attrs[k].name \o "=\""
               \o (IF attrs[k].name = "style" THEN "" ELSE attrs[k].value) \o "\"")
         \o CleanAttrs(attrs, k + 1)

\* One tag as bleach writes it: a tag of the allow-list stays, with its
\* allowed attributes (a void one without its "/"); any other tag is escaped.
CleanTag(l, tag) ==
    IF tag.name \notin allowed_tags
    THEN "&lt;" \o EscapeTextS(SubSeq(l, tag.from + 1, tag.to - 1)) \o "&gt;"
    ELSE IF tag.closing THEN "</" \o tag.name \o ">"
    ELSE "<" \o tag.name
         \o CleanAttrs(AttrsOf(SubSeq(l, tag.from + 1 + Len(tag.name), tag.to - 1)), 1)
         \o ">"

RECURSIVE BleachFrom(_, _, _, _)
BleachFrom(l, tags, k, from) ==
    LET upto == IF k > Len(tags) THEN Len(l) ELSE tags[k].from - 1 IN
    EscapeTextS(SubSeq(l, from, upto))
    \o (IF k > Len(tags) THEN ""
        ELSE CleanTag(l, tags[k]) \o BleachFrom(l, tags, k + 1, tags[k].to + 1))

\* utils.py 110: bleach.clean(html_content, tags=allowed_tags,
\* attributes=allowed_attrs) on one line
BleachS(l) == BleachFrom(l, TagsOf(l), 1, 1)

\* utils.py 113-118
InjectClassesS(l) ==
    ReplaceEach(l,
        << <<"<h1>", "<h1 class=\"advice-heading\">">>,
           <<"<h2>", "<h2 class=\"advice-heading\">">>,
           <<"<h3>", "<h3 class=\"advice-heading\">">>,
           <<"<p>", "<p class=\"advice-paragraph\">">>,
           <<"<ul>", "<ul class=\"advice-list\" style=\"margin-bottom: 16px;\">">>,
           <<"<ol>", "<ol class=\"advice-list\" style=\"margin-bottom: 16px;\">">> >>)

-----------------------------------------------------------------------------
(* Fallback Generator: utils.py 186-550 *)

\* utils.py 205-216, in the order of the dict
topics ==
    << [topic |-> "retirement",
        keywords |-> <<"retirement planning", "pension", "retirement fund", "retire">>],
       [topic |-> "stocks", keywords |-> <<"stock", "equity", "shares", "market">>],
       [topic |-> "mutual_funds", keywords |-> <<"mutual fund", "sip", "systematic">>],
       [topic |-> "real_estate",
        keywords |-> <<"real estate", "property", "home", "house">>],
       [topic |-> "tax", keywords |-> <<"tax", "taxation", "tax-saving", "tax benefit">>],
       [topic |-> "debt", keywords |-> <<"debt", "bond", "fixed income", "deposit">>],
       [topic |-> "gold", keywords |-> <<"gold", "precious metal", "commodity">>],
       [topic |-> "international",
        keywords |-> <<"international", "global", "foreign", "overseas">>],
       [topic |-> "crypto", keywords |-> <<"crypto", "bitcoin", "ethereum", "blockchain">>],
       [topic |-> "emergency",
        keywords |-> <<"emergency", "contingency", "rainy day", "liquid">>] >>

\* utils.py 237
QuestionWords == {"what", "how", "why", "when", "where", "which", "can", "should"}

\* Every substring the generator looks for in the lower-cased prompt.
Needles ==
    {"conservative", "low risk", "aggressive", "high risk", "?"}
    \cup QuestionWords
    \cup UNION {{topics[k].keywords[i] : i \in DOMAIN topics[k].keywords} :
                    k \in DOMAIN topics}

\* The needles that occur in one line, lower-cased as at utils.py 195.
LineHitsScan(l) == LET low == LowerS(l) IN {k \in Needles : InS(k, low)}

\* utils.py 338-499: the three risk-profile template documents, line by line.
advice ==
    [ conservative |->
        << "",
           "<h2 class=\"advice-heading\">Personalized Investment Advice - Conservative Profile</h2>",
           "",
           "<p class=\"advice-paragraph\">Based on your conservative risk profile, here are my recommendations:</p>",
           "",
           "<ol class=\"advice-list\">",
           "  <li>",
           "    <strong>Fixed Income Investments (60-70%)</strong>",
           "    <ul>",
           "      <li>Government bonds and treasury bills</li>",
           "      <li>AAA-rated corporate bonds</li>",
           "      <li>Fixed deposits in major banks</li>",
           "      <li>Debt mutual funds with high-quality holdings</li>",
           "    </ul>",
           "  </li>",
           "  ",
           "  <li>",
           "    <strong>Equity Investments (15-25%)</strong>",
           "    <ul>",
           "      <li>Large-cap mutual funds focused on stable blue-chip companies</li>",
           "      <li>Index funds tracking major indices like Nifty 50</li>",
           "      <li>Dividend-yielding stocks from established sectors</li>",
           "    </ul>",
           "  </li>",
           "  ",
           "  <li>",
           "    <strong>Alternative Investments (5-10%)</strong>",
           "    <ul>",
           "      <li>Gold ETFs or sovereign gold bonds</li>",
           "      <li>REITs (Real Estate Investment Trusts) with stable income properties</li>",
           "    </ul>",
           "  </li>",
           "  ",
           "  <li>",
           "    <strong>Cash and Equivalents (5-10%)</strong>",
           "    <ul>",
           "      <li>Liquid funds</li>",
           "      <li>Short-term fixed deposits</li>",
           "      <li>Savings accounts with competitive interest rates</li>",
           "    </ul>",
           "  </li>",
           "</ol>",
           "",
           "<p class=\"advice-paragraph\"><strong>Key Considerations:</strong></p>",
           "<ul class=\"advice-list\">",
           "  <li>Focus on capital preservation and steady income</li>",
           "  <li>Maintain emergency fund covering 6-9 months of expenses</li>",
           "  <li>Review portfolio quarterly and rebalance annually</li>",
           "  <li>Consider tax-efficient investments like ELSS for tax planning</li>",
           "</ul>",
           "",
           "<p class=\"advice-paragraph\">This conservative allocation aims to provide stability and income while minimizing volatility.</p>",
           "" >>,
      moderate |->
        << "",
           "<h2 class=\"advice-heading\">Personalized Investment Advice - Moderate Risk Profile</h2>",
           "",
           "<p class=\"advice-paragraph\">Based on your moderate risk profile, here are my balanced recommendations:</p>",
           "",
           "<ol class=\"advice-list\">",
           "  <li>",
           "    <strong>Equity Investments (40-50%)</strong>",
           "    <ul>",
           "      <li>Diversified large and mid-cap mutual funds</li>",
           "      <li>Index funds tracking major indices</li>",
           "      <li>Select growth stocks in promising sectors</li>",
           "      <li>International equity funds (5-10% allocation)</li>",
           "    </ul>",
           "  </li>",
           "  ",
           "  <li>",
           "    <strong>Fixed Income (30-40%)</strong>",
           "    <ul>",
           "      <li>Government and corporate bonds</li>",
           "      <li>Short to medium duration debt funds</li>",
           "      <li>Fixed deposits with laddering strategy</li>",
           "    </ul>",
           "  </li>",
           "  ",
           "  <li>",
           "    <strong>Alternative Investments (10-15%)</strong>",
           "    <ul>",
           "      <li>REITs and InvITs for real estate exposure</li>",
           "      <li>Gold ETFs or sovereign gold bonds</li>",
           "      <li>Balanced advantage funds</li>",
           "    </ul>",
           "  </li>",
           "  ",
           "  <li>",
           "    <strong>Cash and Equivalents (5-10%)</strong>",
           "    <ul>",
           "      <li>Liquid funds for emergency needs</li>",
           "      <li>Short-term deposits</li>",
           "    </ul>",
           "  </li>",
           "</ol>",
           "",
           "<p class=\"advice-paragraph\"><strong>Key Strategies:</strong></p>",
           "<ul class=\"advice-list\">",
           "  <li>Implement systematic investment plans (SIPs) for equity investments</li>",
           "  <li>Consider tax-efficient options like ELSS for equity portion</li>",
           "  <li>Maintain emergency fund covering 4-6 months of expenses</li>",
           "  <li>Review portfolio quarterly and rebalance semi-annually</li>",
           "</ul>",
           "",
           "<p class=\"advice-paragraph\">This balanced approach aims to provide growth potential while managing downside risk through diversification.</p>",
           "" >>,
      aggressive |->
        << "",
           "<h2 class=\"advice-heading\">Personalized Investment Advice - Aggressive Growth Profile</h2>",
           "",
           "<p class=\"advice-paragraph\">Based on your aggressive risk profile, here are my growth-oriented recommendations:</p>",
           "",
           "<ol class=\"advice-list\">",
           "  <li>",
           "    <strong>Equity Investments (65-75%)</strong>",
           "    <ul>",
           "      <li>Diversified mid and small-cap funds</li>",
           "      <li>Sectoral and thematic funds in high-growth areas</li>",
           "      <li>Direct equity in growth companies</li>",
           "      <li>International equity funds (15-20% allocation)</li>",
           "    </ul>",
           "  </li>",
           "  ",
           "  <li>",
           "    <strong>Fixed Income (10-20%)</strong>",
           "    <ul>",
           "      <li>Strategic bond funds</li>",
           "      <li>Credit risk funds with higher yields</li>",
           "      <li>Short-duration debt for liquidity</li>",
           "    </ul>",
           "  </li>",
           "  ",
           "  <li>",
           "    <strong>Alternative Investments (10-15%)</strong>",
           "    <ul>",
           "      <li>REITs and InvITs</li>",
           "      <li>Commodity ETFs</li>",
           "      <li>Structured products with capital appreciation focus</li>",
           "      <li>Private equity funds (if accessible)</li>",
           "    </ul>",
           "  </li>",
           "  ",
           "  <li>",
           "    <strong>Cash and Equivalents (0-5%)</strong>",
           "    <ul>",
           "      <li>Minimal cash holdings</li>",
           "      <li>Liquid funds only for immediate needs</li>",
           "    </ul>",
           "  </li>",
           "</ol>",
           "",
           "<p class=\"advice-paragraph\"><strong>Key Strategies:</strong></p>",
           "<ul class=\"advice-list\">",
           "  <li>Implement systematic investment plans (SIPs) with step-up feature</li>",
           "  <li>Consider tactical asset allocation based on market conditions</li>",
           "  <li>Maintain higher exposure to emerging sectors like technology, renewable energy</li>",
           "  <li>Review portfolio monthly and rebalance quarterly</li>",
           "</ul>",
           "",
           "<p class=\"advice-paragraph\">This aggressive allocation aims to maximize long-term growth potential while accepting higher short-term volatility.</p>",
           "" >> ]

\* utils.py 255-320: the advice block of one topic on the question branch,
\* the parts appended to response_parts in order.
TopicAdvice(topic, risk_profile) ==
    CASE topic = "retirement" ->
           << "<h4>Retirement Planning</h4>" >> \o
           (IF risk_profile = "conservative" THEN << "<p>For retirement with a conservative approach, consider allocating 70% to fixed income instruments like government securities and high-rated bonds. The remaining 30% can be in large-cap equity funds for long-term growth.</p>" >>
            ELSE IF risk_profile = "aggressive" THEN << "<p>With an aggressive risk profile, you might consider a 70-30 split favoring equity investments for retirement. Focus on a mix of mid-cap and large-cap funds, with some international exposure for diversification.</p>" >>
            ELSE << "<p>For a balanced retirement approach, consider a 50-50 split between equity and debt. Index funds can form the core of your equity portfolio, while corporate bonds can provide stability.</p>" >>)
      [] topic = "stocks" ->
           << "<h4>Stock Market Investments</h4>" >> \o
           (IF risk_profile = "conservative" THEN << "<p>Given your conservative profile, limit direct stock exposure to 20% of your portfolio. Focus on dividend-yielding blue-chip companies with stable earnings history.</p>" >>
            ELSE IF risk_profile = "aggressive" THEN << "<p>With your aggressive approach, you can allocate up to 70% in stocks. Consider a mix of established companies and growth stocks in emerging sectors like renewable energy and technology.</p>" >>
            ELSE << "<p>For a moderate investor, a 40-50% allocation to stocks is appropriate. Focus on a diversified portfolio of large-caps with some mid-cap exposure for growth potential.</p>" >>)
      [] topic = "mutual_funds" ->
           << "<h4>Mutual Fund Strategy</h4>" >> \o
           (IF risk_profile = "conservative" THEN << "<p>Consider debt-oriented hybrid funds and large-cap funds with a track record of stable returns. Liquid funds are good for short-term goals.</p>" >>
            ELSE IF risk_profile = "aggressive" THEN << "<p>Look at sectoral funds, mid and small-cap funds, and international funds for higher growth potential. Maintain systematic investment plans (SIPs) to average out market volatility.</p>" >>
            ELSE << "<p>Balanced advantage funds and multi-cap funds can form the core of your portfolio. Consider index funds for cost-effective market exposure.</p>" >>)
      [] topic = "real_estate" ->
           << "<h4>Real Estate Investments</h4>",
              "<p>REITs (Real Estate Investment Trusts) offer a liquid way to invest in real estate with lower capital requirements than direct property purchases. They typically offer dividend yields of 3-5%.</p>" >> \o
           (IF risk_profile # "conservative" THEN << "<p>For physical real estate, consider residential properties in growing tier-2 cities for better rental yields compared to metropolitan areas.</p>" >>
            ELSE << >>)
      [] topic = "tax" ->
           << "<h4>Tax-Efficient Investing</h4>",
              "<p>ELSS (Equity Linked Saving Schemes) offer tax deductions under Section 80C with a relatively short lock-in period of 3 years compared to other tax-saving instruments.</p>",
              "<p>Consider debt funds held for over 3 years for indexation benefits, which can significantly reduce your tax liability compared to fixed deposits.</p>" >>
      [] topic = "debt" ->
           << "<h4>Fixed Income Strategy</h4>" >> \o
           (IF risk_profile = "conservative" THEN << "<p>Focus on government securities, AAA-rated bonds, and banking & PSU debt funds for safety. Ladder your fixed deposits to manage interest rate risk.</p>" >>
            ELSE << "<p>Consider corporate bond funds and strategic debt funds for potentially higher yields. Keep an eye on credit quality and duration based on interest rate outlook.</p>" >>)
      [] topic = "gold" ->
           << "<h4>Gold Investments</h4>",
              "<p>Sovereign Gold Bonds offer the dual benefit of gold price appreciation and a fixed interest rate of 2.5% per annum. They're more tax-efficient than physical gold.</p>",
              "<p>Limit gold allocation to 5-15% of your portfolio as a hedge against inflation and market volatility.</p>" >>
      [] topic = "international" ->
           << "<h4>International Diversification</h4>",
              "<p>Consider funds that invest in US markets for exposure to global technology giants not available in Indian markets.</p>" >> \o
           (IF risk_profile # "conservative" THEN << "<p>Emerging market funds can offer higher growth potential but come with additional currency and geopolitical risks.</p>" >>
            ELSE << >>)
      [] topic = "crypto" ->
           << "<h4>Cryptocurrency Considerations</h4>",
              "<p>Cryptocurrencies are highly volatile and speculative. If you're interested, limit exposure to 1-5% of your portfolio based on your risk tolerance.</p>",
              "<p>Consider dollar-cost averaging rather than lump-sum investments given the high volatility.</p>" >>
      [] topic = "emergency" ->
           << "<h4>Emergency Fund Strategy</h4>",
              "<p>Maintain 6-12 months of expenses in highly liquid instruments like savings accounts and liquid funds.</p>",
              "<p>Consider a sweep-in fixed deposit linked to your savings account for better interest rates while maintaining liquidity.</p>" >>
      [] OTHER -> << >>

\* utils.py 323-330: unique_recommendations of the question branch.
unique_recommendations_question ==
    << "<p>Consider factor-based investing through smart-beta ETFs that offer a blend of active and passive strategies at lower costs than traditional active funds.</p>",
       "<p>Look into target-date funds that automatically adjust asset allocation as you approach your financial goal date.</p>",
       "<p>Explore the possibility of investing in municipal bonds which offer tax-free interest income.</p>",
       "<p>Consider value-averaging as an alternative to regular SIPs, where you adjust your investment amount to meet a predetermined growth rate.</p>",
       "<p>Investigate fractional property investments through platforms that allow you to own a percentage of premium real estate.</p>",
       "<p>Look into inflation-indexed bonds that provide protection against rising prices by adjusting returns based on inflation rates.</p>" >>

\* utils.py 534-541: unique_recommendations of the template branch; each is
\* the text before "{0}" and the text after it.
unique_recommendations_template ==
    << << "<p><strong>Unique Strategy #",
          ":</strong> Consider factor-based investing through smart-beta ETFs that offer a blend of active and passive strategies at lower costs.</p>" >>,
       << "<p><strong>Unique Strategy #",
          ":</strong> Look into target-date funds that automatically adjust asset allocation as you approach your financial goal date.</p>" >>,
       << "<p><strong>Unique Strategy #",
          ":</strong> Explore the possibility of investing in municipal bonds which offer tax-free interest income.</p>" >>,
       << "<p><strong>Unique Strategy #",
          ":</strong> Consider value-averaging as an alternative to regular SIPs, where you adjust your investment amount to meet a predetermined growth rate.</p>" >>,
       << "<p><strong>Unique Strategy #",
          ":</strong> Investigate fractional property investments through platforms that allow you to own a percentage of premium real estate.</p>" >>,
       << "<p><strong>Unique Strategy #",
          ":</strong> Look into inflation-indexed bonds that provide protection against rising prices by adjusting returns based on inflation rates.</p>" >> >>

\* utils.py 513-519: the custom sections of the template branch.
CustomSection(topic) ==
    IF topic = "retirement" THEN
        << "<h3 class=\"advice-heading\">Retirement Focus</h3>",
           "<p>For retirement planning, consider a systematic withdrawal plan (SWP) from your mutual fund investments during retirement years. This provides regular income while keeping the remaining corpus invested.</p>" >>
    ELSE IF topic = "tax" THEN
        << "<h3 class=\"advice-heading\">Tax Optimization</h3>",
           "<p>Consider tax-loss harvesting by selling investments that have experienced losses to offset capital gains tax on your profitable investments.</p>" >>
    ELSE << >>

UniqueStrategyHeading == "<h4>Unique Strategy to Consider</h4>"

RiskProfiles == {"conservative", "moderate", "aggressive"}

\* utils.py 250 and 509: the two lines that carry the date
QuestionHeading ==
    "<h3 class=\"advice-heading\">Financial Advice - " \o current_date \o "</h3>"

OutlookLine ==
    "<p class=\"advice-paragraph\"><em>Investment outlook as of " \o current_date
    \o "</em></p>"

\* Every fixed line the generator can put into a response.
CannedLines ==
    UNION {{advice[r][i] : i \in DOMAIN advice[r]} : r \in RiskProfiles}
    \cup UNION {{TopicAdvice(topics[k].topic, r)[i] :
                    i \in DOMAIN TopicAdvice(topics[k].topic, r)} :
                 k \in DOMAIN topics, r \in RiskProfiles}
    \cup UNION {{CustomSection(topics[k].topic)[i] :
                    i \in DOMAIN CustomSection(topics[k].topic)} : k \in DOMAIN topics}
    \cup {unique_recommendations_question[i] :
             i \in DOMAIN unique_recommendations_question}
    \cup {UniqueStrategyHeading, QuestionHeading, OutlookLine}

\* What each step of the formatter makes of one line, worked out once for the
\* fixed lines: whether it holds the escaped wrapper or the wrapper opening,
\* its pieces after the bold and the numbered-item breaks, what Markdown needs
\* to know of it, and what bleach and the class injection leave of it.
LineFormatScan(l) ==
    LET Scan(tags) ==
            [escaped |-> InS(EscapedWrapper, l),
             wrapped |-> InS(WrapperOpen, l),
             bold |-> BoldBreakS(l),
             numbered_last |-> NumberBreakS(l, TRUE),
             numbered_inner |-> NumberBreakS(l, FALSE),
             blank |-> IsBlankLine(l),
             raw |-> IsRawStart(l, tags),
             delta |-> LineDelta(tags),
             tags |-> tags,
             clean |-> InjectClassesS(BleachFrom(l, tags, 1, 1))]
    IN Scan(TagsOf(l))

LineFormatTab == [l \in CannedLines |-> LineFormatScan(l)]

LineFormat(l) ==
    LET Look(tab) == IF l \in DOMAIN tab THEN tab[l] ELSE LineFormatScan(l)
    IN Look(LineFormatTab)

\* The fixed lines as they are stored, and as the chat history shows them.
StoredLines == {LineFormatTab[l].clean : l \in CannedLines}

StripTagsTab == [l \in StoredLines |-> StripTagsS(l)]

StripTagsLine(l) ==
    LET Look(tab) == IF l \in DOMAIN tab THEN tab[l] ELSE StripTagsS(l)
    IN Look(StripTagsTab)

\* views.py 233: re.sub(r'<[^>]*>', '', content), for content whose every "<"
\* has its ">" on the same line
StripTags(t) == [i \in DOMAIN t |-> StripTagsLine(t[i])]

LineHitsTab ==
    [l \in {StripTagsTab[s] : s \in DOMAIN StripTagsTab} \cup PromptLines |->
        LineHitsScan(l)]

LineHits(l) ==
    LET Look(tab) == IF l \in DOMAIN tab THEN tab[l] ELSE LineHitsScan(l)
    IN Look(LineHitsTab)

\* The needles that occur in the prompt: none of them holds a line end.
PromptHits(prompt) == UNION {LineHits(l) : l \in {prompt[i] : i \in DOMAIN prompt}}

\* A faulty variant: only the words conservative and aggressive count.
RiskProfileOf_WordsOnly(hits) ==
    IF "conservative" \in hits THEN "conservative"
    ELSE IF "aggressive" \in hits THEN "aggressive"
    ELSE "moderate"

\* A faulty variant: the aggressive words are looked for first.
RiskProfileOf_AggressiveFirst(hits) ==
    IF "aggressive" \in hits \/ "high risk" \in hits THEN "aggressive"
    ELSE IF "conservative" \in hits \/ "low risk" \in hits THEN "conservative"
    ELSE "moderate"

\* utils.py 197-202
RiskProfileOf(hits) ==
    IF "conservative" \in hits \/ "low risk" \in hits THEN "conservative"
    ELSE IF "aggressive" \in hits \/ "high risk" \in hits THEN "aggressive"
    ELSE "moderate"

\* A faulty variant: the topics are listed from the last of the dict to the first.
MentionedIn_LastFirst(hits) ==
    LET hit(t) == \E k \in DOMAIN t.keywords : t.keywords[k] \in hits
        sel == SelectSeq(topics, hit)
    IN [k \in DOMAIN sel |-> sel[Len(sel) + 1 - k].topic]

\* utils.py 219-222
MentionedIn(hits) ==
    LET hit(t) == \E k \in DOMAIN t.keywords : t.keywords[k] \in hits
        sel == SelectSeq(topics, hit)
    IN [k \in DOMAIN sel |-> sel[k].topic]

\* utils.py 226-231
potential_topics(risk_profile) ==
    IF risk_profile = "conservative" THEN <<"retirement", "debt", "emergency", "tax">>
    ELSE IF risk_profile = "aggressive"
    THEN <<"stocks", "international", "real_estate", "crypto">>
    ELSE <<"mutual_funds", "stocks", "debt", "gold">>

\* utils.py 234: random.sample(potential_topics, 2) draws two different
\* positions, in either order
Samples == {s \in (1..4) \X (1..4) : s[1] # s[2]}

\* utils.py 243: random.randint(1000, 9999)
MinResponseId == 1000

\* How many values the random response_id takes, from MinResponseId on.
MaxResponseIds == 1

ResponseIds == MinResponseId..(MinResponseId + MaxResponseIds - 1)

\* utils.py 237
IsQuestion(hits) == "?" \in hits \/ hits \cap QuestionWords # {}

RECURSIVE JoinS(_, _)
\* sep.join(parts) for strings
JoinS(sep, parts) ==
    IF Len(parts) = 0 THEN ""
    ELSE IF Len(parts) = 1 THEN parts[1]
    ELSE parts[1] \o sep \o JoinS(sep, Tail(parts))

RECURSIVE FlatParts(_, _)
FlatParts(f(_), xs) ==
    IF Len(xs) = 0 THEN <<>> ELSE f(xs[1]) \o FlatParts(f, Tail(xs))

\* A faulty variant: the lines are put at the end of the text.
InsertAfterLast_AtEnd(t, sep, inserted) == t \o inserted

\* t.rsplit(sep, 1) and parts[0] + sep + "\n" + inserted + parts[1] when sep
\* occurs (utils.py 525-529, 544-546); t + "\n" + inserted when it does not
\* (utils.py 531, 548)
InsertAfterLast(t, sep, inserted) ==
    LET lines == {j \in DOMAIN t : InS(sep, t[j])} IN
    IF lines = {} THEN t \o inserted
    ELSE LET j == MaxOf(lines)
             q == RFindS(t[j], sep)
         IN SubSeq(t, 1, j - 1)
            \o <<SubSeq(t[j], 1, q + Len(sep) - 1)>>
            \o Cat(inserted,
                   <<SubSeq(t[j], q + Len(sep), Len(t[j]))>> \o SubSeq(t, j + 1, Len(t)))

\* A faulty variant: the answer is the unique recommendation alone.
QuestionResponse_OnlyRecommendation(mentioned_topics, risk_profile, response_id) ==
    << unique_recommendations_question[
           (response_id % Len(unique_recommendations_question)) + 1] >>

\* utils.py 246-335: the answer to a question
QuestionResponse(mentioned_topics, risk_profile, response_id) ==
    LET part(topic) == TopicAdvice(topic, risk_profile) IN
    << QuestionHeading,
       "<p class=\"advice-paragraph\">Thank you for your question about "
       \o JoinS(", ", mentioned_topics) \o ". Here's my perspective:</p>" >>
    \o FlatParts(part, mentioned_topics)
    \o << UniqueStrategyHeading,
          unique_recommendations_question[
              (response_id % Len(unique_recommendations_question)) + 1] >>

\* utils.py 502-548: the template of the risk profile with the custom
\* sections after its last list and the numbered strategy after its last
\* paragraph
TemplateResponse(mentioned_topics, risk_profile, response_id) ==
    LET custom_sections == <<OutlookLine>> \o FlatParts(CustomSection, mentioned_topics)
        with_custom == InsertAfterLast(advice[risk_profile], "</ul>", custom_sections)
        rec == unique_recommendations_template[
                   (response_id % Len(unique_recommendations_template)) + 1]
        unique_rec == rec[1] \o ToString(response_id) \o rec[2]
    IN InsertAfterLast(with_custom, "</p>", <<unique_rec>>)

\* utils.py 186-550.  sample and response_id are the two random draws
\* (utils.py 234 and 243); sample is used only when the prompt names no topic.
generate_mock_investment_advice(prompt, sample, response_id) ==
    LET Respond(hits, risk_profile, mentioned_topics) ==
            IF IsQuestion(hits)
            THEN QuestionResponse(mentioned_topics, risk_profile, response_id)
            ELSE TemplateResponse(mentioned_topics, risk_profile, response_id)
        Mentioned(named, potential) ==
            IF Len(named) = 0 THEN <<potential[sample[1]], potential[sample[2]]>>
            ELSE named
        Profiled(hits, risk_profile) ==
            Respond(hits, risk_profile,
                    Mentioned(MentionedIn(hits), potential_topics(risk_profile)))
        Read(hits) == Profiled(hits, RiskProfileOf(hits))
    IN Read(PromptHits(prompt))

-----------------------------------------------------------------------------
(* Response Formatter, the whole text: utils.py 78-123 *)

\* Each step is given, with the document, what LineFormat knows of each of
\* its lines (fmt).

\* utils.py 84-87
Step1Unescape(raw, fmt) ==
    IF \E i \in DOMAIN raw : fmt[i].escaped
    THEN [i \in DOMAIN raw |-> UnescapeS(raw[i])]
    ELSE raw

\* utils.py 90-94: re.search(r'<div class="advice-content">(.*?)</div>', raw,
\* re.DOTALL): the text between the first wrapper opening and the first
\* "</div>" after it; raw itself when there is no such match.
Step2DeNest(raw, fmt) ==
    LET Inner(open, close) ==
            IF close[1] = 0 THEN raw
            ELSE Between(raw, open[1], open[2] + Len(WrapperOpen), close[1], close[2])
        After(open) ==
            Inner(open, FindFrom(raw, WrapperClose, open[1], open[2] + Len(WrapperOpen)))
    IN IF \A i \in DOMAIN raw : ~fmt[i].wrapped THEN raw
       ELSE After(FindFrom(raw, WrapperOpen, 1, 1))

RECURSIVE Step3BoldIn(_, _, _)
Step3BoldIn(fmt, lo, hi) ==
    IF lo > hi THEN <<>>
    ELSE IF lo = hi THEN fmt[lo].bold
    ELSE LET mid == (lo + hi) \div 2 IN
         Step3BoldIn(fmt, lo, mid) \o Step3BoldIn(fmt, mid + 1, hi)

\* utils.py 97
Step3Bold(raw, fmt) == Step3BoldIn(fmt, 1, Len(raw))

RECURSIVE Step4NumberedIn(_, _, _, _)
Step4NumberedIn(t, fmt, lo, hi) ==
    LET Pieces(f) == IF lo = Len(t) THEN f.numbered_last ELSE f.numbered_inner
        Halves(mid) ==
            Step4NumberedIn(t, fmt, lo, mid) \o Step4NumberedIn(t, fmt, mid + 1, hi)
    IN IF lo > hi THEN <<>>
       ELSE IF lo = hi THEN Pieces(fmt[lo])
       ELSE Halves((lo + hi) \div 2)

\* utils.py 100
Step4Numbered(formatted, fmt) == Step4NumberedIn(formatted, fmt, 1, Len(formatted))

\* Markdown reads the document line by line; st is what it has written (out),
\* how many elements of a raw HTML block are open (depth) and the lines of the
\* paragraph it is in (para); the lines before a line are read before it.
MarkdownLine(st, line, f) ==
    LET Read(l) ==
            IF st.depth > 0 THEN
               [out |-> Append(st.out, l), depth |-> st.depth + f.delta, para |-> <<>>]
            ELSE IF f.blank THEN
               [out |-> st.out \o Paragraph(st.para), depth |-> 0, para |-> <<>>]
            ELSE IF f.raw THEN
               [out |-> Append(st.out \o Paragraph(st.para), l),
                depth |-> IF f.delta > 0 THEN f.delta ELSE 0, para |-> <<>>]
            ELSE [out |-> st.out, depth |-> 0, para |-> Append(st.para, l)]
    IN Read(IF f.blank THEN "" ELSE line)

RECURSIVE MarkdownIn(_, _, _, _, _)
MarkdownIn(st, t, fmt, lo, hi) ==
    LET Rest(left, mid) ==
            IF left.depth >= 0 THEN MarkdownIn(left, t, fmt, mid + 1, hi) ELSE left
        Halves(mid) == Rest(MarkdownIn(st, t, fmt, lo, mid), mid)
    IN IF lo > hi THEN st
       ELSE IF lo = hi THEN MarkdownLine(st, t[lo], fmt[lo])
       ELSE Halves((lo + hi) \div 2)

\* utils.py 103: markdown.markdown(formatted, extensions=['tables', 'nl2br']),
\* for documents made of raw HTML blocks and of paragraphs of plain lines
\* (no Markdown markup inside a paragraph): a raw block is passed on as it is
\* but for its blank lines, which lose their spaces; a paragraph is wrapped in
\* <p> with <br /> at its inner line ends; the blank lines between blocks go.
Step5Markdown(formatted, fmt) ==
    LET Whole(out) == IF out = <<>> THEN EmptyText ELSE out
        End(st) == Whole(st.out \o Paragraph(st.para))
    IN End(MarkdownIn([out |-> <<>>, depth |-> 0, para |-> <<>>],
                      formatted, fmt, 1, Len(formatted)))

\* The allowed elements that are open after the tags from the k-th on, the
\* innermost last, when those of open were open before them.
RECURSIVE OpenAfter(_, _, _)
OpenAfter(open, tags, k) ==
    IF k > Len(tags) THEN open
    ELSE IF tags[k].name \notin allowed_tags \/ tags[k].name \in VoidTags
    THEN OpenAfter(open, tags, k + 1)
    ELSE IF ~tags[k].closing THEN OpenAfter(Append(open, tags[k].name), tags, k + 1)
    ELSE IF Len(open) > 0 /\ open[Len(open)] = tags[k].name
    THEN OpenAfter(SubSeq(open, 1, Len(open) - 1), tags, k + 1)
    ELSE OpenAfter(open, tags, k + 1)

RECURSIVE OpenIn(_, _, _, _)
OpenIn(open, fmt, lo, hi) ==
    LET Rest(left, mid) == IF Len(left) >= 0 THEN OpenIn(left, fmt, mid + 1, hi) ELSE left
        Halves(mid) == Rest(OpenIn(open, fmt, lo, mid), mid)
    IN IF lo > hi THEN open
       ELSE IF lo = hi THEN OpenAfter(open, fmt[lo].tags, 1)
       ELSE Halves((lo + hi) \div 2)

\* The end tags of the elements of open, the innermost first.
RECURSIVE Closers(_)
Closers(open) ==
    IF Len(open) = 0 THEN ""
    ELSE "</" \o open[Len(open)] \o ">" \o Closers(SubSeq(open, 1, Len(open) - 1))

\* utils.py 110-118: bleach.clean and the class injection.  bleach writes the
\* document tag by tag and text by text, and ends the elements that the
\* document leaves open; the documents hold no end tag without its element.
Step6Clean(html_content, fmt) ==
    LET Ended(lines, closers) ==
            IF closers = "" THEN lines ELSE Cat(lines, Txt(closers))
    IN Ended([i \in DOMAIN html_content |-> fmt[i].clean],
             Closers(OpenIn(<<>>, fmt, 1, Len(html_content))))

\* utils.py 84-118: the steps one after the other, each on the document that
\* the step before it has left.
RECURSIVE FormatFrom(_, _)
FormatFrom(step, t) ==
    LET Do(fmt) ==
            IF step = 1 THEN FormatFrom(2, Step1Unescape(t, fmt))
            ELSE IF step = 2 THEN FormatFrom(3, Step2DeNest(t, fmt))
            ELSE IF step = 3 THEN FormatFrom(4, Step3Bold(t, fmt))
            ELSE IF step = 4 THEN FormatFrom(5, Step4Numbered(t, fmt))
            ELSE IF step = 5 THEN FormatFrom(6, Step5Markdown(t, fmt))
            ELSE Step6Clean(t, fmt)
    IN Do([i \in DOMAIN t |-> LineFormat(t[i])])

\* utils.py 84-123: the steps, and the outer container around what they leave
FormatSteps(raw_advice) ==
    Cat(Cat(Txt(WrapperOpen), FormatFrom(1, raw_advice)), Txt(WrapperClose))

\* Every document the template branch of the generator can return (its
\* custom sections are those of retirement and tax), formatted once.
FormatTab ==
    [d \in {TemplateResponse(mentioned, risk_profile, response_id) :
                mentioned \in {<<>>, <<"retirement">>, <<"tax">>, <<"retirement", "tax">>},
                risk_profile \in RiskProfiles,
                response_id \in ResponseIds} |->
        FormatSteps(d)]

\* utils.py 78-123.  raw_advice is a str; any other value raises (utils.py 84).
format_investment_advice(raw_advice) ==
    LET Look(tab) ==
            IF raw_advice \in DOMAIN tab THEN tab[raw_advice] ELSE FormatSteps(raw_advice)
    IN Look(FormatTab)

\* str.startswith / str.endswith for a text and a needle without a line end
StartsWithT(t, p) == StartsWithS(t[1], p)

EndsWithT(t, p) == EndsWithS(t[Len(t)], p)

\* t[a:-b] for a text whose first line has a and whose last line has b
\* characters or more
Slice(t, a, b) ==
    LET n == Len(t) IN
    IF n = 1 THEN <<SubSeq(t[1], a + 1, Len(t[1]) - b)>>
    ELSE <<SubSeq(t[1], a + 1, Len(t[1]))>>
         \o SubSeq(t, 2, n - 1)
         \o <<SubSeq(t[n], 1, Len(t[n]) - b)>>

WrapperOpenLen == 28

WrapperCloseLen == 6

\* A faulty variant: the slice starts one character early.
StripWrapper_OneShort(formatted) ==
    IF StartsWithT(formatted, WrapperOpen) /\ EndsWithT(formatted, WrapperClose)
    THEN Slice(formatted, WrapperOpenLen - 1, WrapperCloseLen)
    ELSE formatted

\* views.py 286-291 and 427-429: the stored form of a formatted response:
\* formatted[28:-6] when it starts with the wrapper opening and ends with
\* "</div>", the formatted text itself otherwise
StripWrapper(formatted) ==
    IF StartsWithT(formatted, WrapperOpen) /\ EndsWithT(formatted, WrapperClose)
    THEN Slice(formatted, WrapperOpenLen, WrapperCloseLen)
    ELSE formatted

-----------------------------------------------------------------------------
(* JSON values, request bodies and replies *)

\* A JSON value: its type and, for a string, its text; for a number, its digits.
Str(t) == [t |-> "str", v |-> t]

Num(digits) == [t |-> "num", v |-> <<digits>>]

Null == [t |-> "null", v |-> <<>>]

\* bool(value) in Python
Truthy(value) ==
    CASE value.t = "str" -> value.v # EmptyText
      [] value.t = "num" -> value.v # <<"0">>
      [] OTHER -> FALSE

\* A body: text that is no JSON ("invalid"), a JSON array ("array"), or a JSON
\* object ("object") that has the field of interest with the value field, or
\* has it not.
Body(shape, has, field) == [shape |-> shape, has |-> has, field |-> field]

\* dict.get(key, ""): the field, "" when the object has it not
GetOrEmpty(body) == IF body.has THEN body.field ELSE Str(EmptyText)

-----------------------------------------------------------------------------
(* Model Client: utils.py 24-75 *)

\* What requests.post can do: raise ConnectionError, Timeout or some other
\* exception, or give a response with a status and a body.
Outcome(kind, status, body) == [kind |-> kind, status |-> status, body |-> body]

NoBody == Body("invalid", FALSE, Null)

\* requests: Response.raise_for_status raises for 400 <= status < 600
RaisesForStatus(status) == status >= 400 /\ status < 600

\* utils.py 24-75.  outcome is what the one POST of utils.py 41 does; fallback
\* is what generate_mock_investment_advice(prompt) returns where this call
\* reaches it (utils.py 49, 56, 62, 69, 75).
query_ollama(outcome, fallback) ==
    LET Got(result) == IF Truthy(result) THEN result ELSE Str(fallback) IN
    IF outcome.kind # "response" THEN Str(fallback)
    ELSE IF RaisesForStatus(outcome.status) THEN Str(fallback)
    ELSE IF outcome.body.shape # "object" THEN Str(fallback)
    ELSE Got(GetOrEmpty(outcome.body))

\* utils.py 39-75: what one call of query_ollama does besides returning: the
\* POSTs it sends (utils.py 41, outside any loop) and the calls of the
\* Fallback Generator (utils.py 49, 56, 62, 69, 75), each in a branch that
\* excludes the others.
\* A faulty variant: a connection error is followed by a second POST.
QueryEffects_Retry(outcome) ==
    [posts |-> IF outcome.kind = "ConnectionError" THEN 2 ELSE 1,
     mocks |-> IF outcome.kind # "response" THEN 1
               ELSE IF RaisesForStatus(outcome.status) THEN 1
               ELSE IF outcome.body.shape # "object" THEN 1
               ELSE IF Truthy(GetOrEmpty(outcome.body)) THEN 0 ELSE 1]

QueryEffects(outcome) ==
    [posts |-> 1,
     mocks |-> IF outcome.kind # "response" THEN 1
               ELSE IF RaisesForStatus(outcome.status) THEN 1
               ELSE IF outcome.body.shape # "object" THEN 1
               ELSE IF Truthy(GetOrEmpty(outcome.body)) THEN 0 ELSE 1]

-----------------------------------------------------------------------------
(* The stored rows and the requests in progress *)

VARIABLES
    FinancialProfile,   \* the FinancialProfile rows, at most one per user
    ChatMessage,        \* the ChatMessage rows in creation order
    InvestmentAdvice,   \* the InvestmentAdvice rows in creation order
    now,                \* the latest timestamp given to a row
    ties,               \* how many rows got the timestamp of the row before
    req,                \* the requests, each with its handler's position
    client,             \* a direct call of the Model Client (SpecClient)
    call                \* a direct call of the formatter, of the generator or
                        \* of a history view

vars == <<FinancialProfile, ChatMessage, InvestmentAdvice, now, ties, req, client, call>>

\* How many requests are handled, possibly at the same time.
MaxReq == 2

\* How many rows may share their timestamp with the row created before them.
MaxTies == 1

\* How many complete chat turns u1 has stored at the start.
MaxPreTurns == 4

\* How many positions of the candidate topics random.sample draws from.
MaxSamplePos == 2

\* The users who send the requests: u1 has the profile P1, u3 has none.  u2,
\* with the profile P2, only owns stored rows.
Requesters == {"u1", "u3"}

\* A faulty variant: the lookup forgets the user.
ProfileOf_AnyUser(user) == <<CHOOSE p \in FinancialProfile : TRUE>>

\* FinancialProfile.objects.get(user=user): <<row>>, or <<>> for DoesNotExist
ProfileOf(user) ==
    IF \E p \in FinancialProfile : p.user = user
    THEN <<CHOOSE p \in FinancialProfile : p.user = user>>
    ELSE <<>>


\* utils.py 234: the draws of random.sample taken into account
SamplePositions == {i \in 1..MaxSamplePos : i <= Len(potential_topics("moderate"))}

SamplesDrawn == {s \in Samples : s[1] \in SamplePositions /\ s[2] \in SamplePositions}

\* What generate_mock_investment_advice(prompt) can return: one text per
\* random draw; the sample is drawn only when the prompt names no topic.
Fallbacks(prompt) ==
    LET Drawn(samples) ==
            {generate_mock_investment_advice(prompt, sample, response_id) :
                sample \in samples, response_id \in ResponseIds}
    IN Drawn(IF Len(MentionedIn(PromptHits(prompt))) = 0
             THEN SamplesDrawn ELSE {<<1, 2>>})

\* The request bodies a chat client sends.
ChatBodies ==
    {Body("invalid", FALSE, Null),
     Body("array", FALSE, Null),
     Body("object", FALSE, Null),
     Body("object", TRUE, Num("5")),
     Body("object", TRUE, Str(Txt("   "))),
     Body("object", TRUE, Str(Txt("  hi ")))}

\* What the remote endpoint does to the one POST of a request.
Outcomes ==
    {Outcome("ConnectionError", 0, NoBody),
     Outcome("response", 200, Body("object", TRUE, Str(Txt("")))),
     Outcome("response", 200, Body("object", TRUE, Str(Txt("Buy bonds")))),
     Outcome("response", 200, Body("object", TRUE, Num("5")))}

\* A faulty variant: the text is left as it came.
StripT_Unstripped(t) == t

\* str.strip of a text
StripT(t) ==
    LET keep == {i \in DOMAIN t : StripS(t[i]) # ""} IN
    IF keep = {} THEN EmptyText
    ELSE LET lo == MinOf(keep)
             hi == MaxOf(keep)
             first == t[lo]
             last == t[hi]
             cut(l) == {i \in 1..Len(l) : ~IsSpaceChar(SubSeq(l, i, i))}
         IN IF lo = hi THEN <<StripS(first)>>
            ELSE <<SubSeq(first, MinOf(cut(first)), Len(first))>>
                 \o SubSeq(t, lo + 1, hi - 1)
                 \o <<SubSeq(last, 1, MaxOf(cut(last)))>>

NoOutcome == Outcome("none", 0, NoBody)

NoRequest ==
    [pc |-> "new", kind |-> "none", user |-> "", body |-> NoBody, form |-> <<>>,
     user_message |-> EmptyText, profile |-> <<>>, focus_area |-> "",
     outcome |-> NoOutcome, response |-> Null, window |-> <<>>,
     calls |-> 0, posts |-> 0, mocks |-> 0, userMsgId |-> 0, advisorMsgId |-> 0, adviceId |-> 0,
     status |-> 0, error |-> "", location |-> "",
     response_html |-> EmptyText, raw_response |-> Null]

\* A handler returns: its locals go, what it told the client stays.
Return(r, status, error, location) ==
    [r EXCEPT !.pc = "done", !.status = status, !.error = error,
              !.location = location, !.user_message = EmptyText,
              !.profile = <<>>, !.response = Null]

\* Requests arrive one after the other; they are handled side by side.
Arrived(r) == IF r = 1 THEN TRUE ELSE req[r - 1].pc # "new"

\* The requests that created the ChatMessage rows, and those that created the
\* InvestmentAdvice rows, of the latest timestamp.
LatestChatBy ==
    {ChatMessage[i].turn : i \in {j \in DOMAIN ChatMessage : ChatMessage[j].timestamp = now}}

LatestAdviceBy ==
    {InvestmentAdvice[i].request :
        i \in {j \in DOMAIN InvestmentAdvice : InvestmentAdvice[j].created_at = now}}

\* auto_now_add: the timestamp of a new row of request r: later than the
\* latest one or, when another of the requests has just created the latest
\* row of the table, within the resolution of the clock the same.
Stamps(latest_by, r) ==
    {now + 1}
    \cup (IF ties < MaxTies /\ latest_by \cap ((1..MaxReq) \ {r}) # {}
          THEN {now} ELSE {})

-----------------------------------------------------------------------------
(* The chat turn: views.py 204-313 *)

Min(a, b) == IF a < b THEN a ELSE b

\* views.py 227
HistoryLimit == 10

\* ChatMessage.objects.filter(user=user), in creation order
FilterUser(rows, user) == SelectSeq(rows, LAMBDA m : m.user = user)

Reverse(s) == [i \in 1..Len(s) |-> s[Len(s) + 1 - i]]

SwapAt(s, i) == [s EXCEPT ![i] = s[i + 1], ![i + 1] = s[i]]

\* Every order of the rows that differs from one of S only in the places of
\* rows with the same timestamp.
RECURSIVE TieOrders(_)
TieOrders(S) ==
    LET swaps(s) == {SwapAt(s, i) :
                        i \in {j \in 1..(Len(s) - 1) : s[j].timestamp = s[j + 1].timestamp}}
        Closed(more) == IF more = S THEN S ELSE TieOrders(more)
    IN Closed(S \cup UNION {swaps(s) : s \in S})

\* A faulty variant: the rows are ordered by ascending timestamp.
recent_messages_Ascending(rows, user) ==
    {SubSeq(o, 1, Min(HistoryLimit, Len(o))) : o \in TieOrders({FilterUser(rows, user)})}

\* views.py 227: filter(user=user).order_by('-timestamp')[:10].  Rows are
\* stored with timestamps that never decrease, so the stored order reversed
\* is one descending order; rows with equal timestamps come in any order.
recent_messages(rows, user) ==
    {SubSeq(o, 1, Min(HistoryLimit, Len(o))) :
        o \in TieOrders({Reverse(FilterUser(rows, user))})}

\* views.py 228-234: oldest first, role and tag-stripped content
ChatHistoryOf(recent) ==
    LET Listed(oldest_first) ==
            [i \in DOMAIN oldest_first |->
                [role |-> IF oldest_first[i].message_type = "user"
                          THEN "user" ELSE "assistant",
                 content |-> StripTags(oldest_first[i].content)]]
    IN Listed(Reverse(recent))

\* A faulty variant: the new row is put before the stored ones.
CreateChatMessage_First(rows, user, message_type, content, timestamp, turn) ==
    <<[id |-> Len(rows) + 1, user |-> user, message_type |-> message_type,
       content |-> content, timestamp |-> timestamp, turn |-> turn]>> \o rows

\* ChatMessage.objects.create(user, message_type, content); turn names the
\* request that created the row.
CreateChatMessage(rows, user, message_type, content, timestamp, turn) ==
    Append(rows, [id |-> Len(rows) + 1, user |-> user, message_type |-> message_type,
                  content |-> content, timestamp |-> timestamp, turn |-> turn])

\* A faulty variant: only a missing text counts as empty.
IsEmptyMessage_Missing(user_message) == Len(user_message) = 0

\* views.py 213: not user_message
IsEmptyMessage(user_message) == IsEmptyText(user_message)

\* views.py 209-224: the body is parsed and validated, the profile is looked
\* up, the user message is saved.
ChatReceive(r) ==
    /\ req[r].pc = "new"
    /\ Arrived(r)
    /\ \E user \in Requesters, body \in ChatBodies :
        LET arrived == [req[r] EXCEPT !.kind = "chat", !.user = user, !.body = body]
            Fails(status, error) ==
                /\ req' = [req EXCEPT ![r] = Return(arrived, status, error, "")]
                /\ UNCHANGED <<ChatMessage, now, ties>>
            Saves(user_message, profile) ==
                \E timestamp \in Stamps(LatestChatBy, r) :
                    /\ ChatMessage' = CreateChatMessage(ChatMessage, user, "user",
                                                        user_message, timestamp, r)
                    /\ now' = timestamp
                    /\ ties' = IF timestamp = now THEN ties + 1 ELSE ties
                    /\ req' = [req EXCEPT ![r] =
                                [arrived EXCEPT !.pc = "query",
                                                !.user_message = user_message,
                                                !.profile = profile,
                                                !.userMsgId = Len(ChatMessage) + 1]]
            Looks(user_message, profile) ==
                IF IsEmptyMessage(user_message)
                THEN Fails(400, "Message cannot be empty")
                ELSE IF profile = <<>> THEN Fails(404, "Financial profile not found")
                ELSE Saves(user_message, profile)
            Reads(message) ==
                IF message.t # "str" THEN Fails(500, "AttributeError")
                ELSE Looks(StripT(message.v), ProfileOf(user))
        IN IF body.shape = "invalid" THEN Fails(500, "JSONDecodeError")
           ELSE IF body.shape # "object" THEN Fails(500, "AttributeError")
           ELSE Reads(GetOrEmpty(body))
    /\ UNCHANGED <<FinancialProfile, InvestmentAdvice, client, call>>

\* views.py 226-279: the recent messages are read, the prompt is built, the
\* Model Client is called.
ChatQuery(r) ==
    /\ req[r].pc = "query"
    /\ \E recent \in recent_messages(ChatMessage, req[r].user) :
        LET Asks(fallbacks) ==
                \E outcome \in Outcomes, fallback \in fallbacks :
                    req' = [req EXCEPT ![r] =
                              [@ EXCEPT !.pc = "respond", !.outcome = outcome,
                                        !.response = query_ollama(outcome, fallback),
                                        !.calls = @ + 1,
                                        !.posts = @ + QueryEffects(outcome).posts,
                                        !.mocks = @ + QueryEffects(outcome).mocks,
                                        !.window =
                                            [i \in DOMAIN recent |->
                                                recent[Len(recent) + 1 - i].id]]]
        IN Asks(Fallbacks(chat_prompt(req[r].profile[1], ChatHistoryOf(recent),
                                      req[r].user_message)))
    /\ UNCHANGED <<FinancialProfile, ChatMessage, InvestmentAdvice, now, ties, client, call>>

\* views.py 281-313: the response is formatted, its wrapper is stripped, the
\* advisor message is saved, the result is returned; any exception gives 500.
ChatRespond(r) ==
    /\ req[r].pc = "respond"
    /\ LET Saves(formatted_content) ==
               \E timestamp \in Stamps(LatestChatBy, r) :
                   /\ ChatMessage' = CreateChatMessage(ChatMessage, req[r].user, "advisor",
                                                       formatted_content, timestamp, r)
                   /\ now' = timestamp
                   /\ ties' = IF timestamp = now THEN ties + 1 ELSE ties
                   /\ req' = [req EXCEPT ![r] =
                               [Return(@, 200, "", "") EXCEPT
                                   !.advisorMsgId = Len(ChatMessage) + 1,
                                   !.response_html = formatted_content,
                                   !.raw_response = req[r].response]]
       IN IF req[r].response.t # "str"
          THEN /\ req' = [req EXCEPT ![r] = Return(@, 500, "TypeError", "")]
               /\ UNCHANGED <<ChatMessage, now, ties>>
          ELSE Saves(StripWrapper(format_investment_advice(req[r].response.v)))
    /\ UNCHANGED <<FinancialProfile, InvestmentAdvice, client, call>>

-----------------------------------------------------------------------------
(* One-shot advice: views.py 163-178 and 348-442 *)

\* InvestmentAdvice.objects.filter(user=user).count()
AdviceCount(rows, user) == Cardinality({i \in DOMAIN rows : rows[i].user = user})

\* views.py 432: the title of a new advice row
AdviceTitle(focus_area, profile) ==
    "Investment Advice: " \o TitleS(focus_area) \o " for " \o profile.name

\* InvestmentAdvice.objects.create(user, profile, title, content); request
\* names the request that created the row.
CreateInvestmentAdvice(rows, user, profile, title, content, created_at, request) ==
    Append(rows, [id |-> Len(rows) + 1, user |-> user, profile |-> profile.user,
                  title |-> title, content |-> content, created_at |-> created_at,
                  request |-> request])

\* views.py 166-167 and 351-419: the profile is looked up (none: redirect to
\* its creation), the earlier advice is counted, focus area and market
\* perspective are drawn, the prompt is built, the Model Client is called.
AdviceRequest(r) ==
    /\ req[r].pc = "new"
    /\ Arrived(r)
    /\ \E user \in Requesters :
        LET arrived == [req[r] EXCEPT !.kind = "advice", !.user = user]
            Asks(profile, focus_area, fallbacks) ==
                \E outcome \in Outcomes, fallback \in fallbacks :
                    req' = [req EXCEPT ![r] =
                              [arrived EXCEPT !.pc = "persist", !.profile = profile,
                                              !.focus_area = focus_area,
                                              !.outcome = outcome,
                                              !.response = query_ollama(outcome, fallback),
                                              !.calls = @ + 1,
                                              !.posts = @ + QueryEffects(outcome).posts,
                                              !.mocks = @ + QueryEffects(outcome).mocks]]
            Builds(profile, base_prompt, previous_advice_count) ==
                \E focus_area \in FocusDrawn(profile[1]),
                   market_perspective \in PerspectivesDrawn :
                    Asks(profile, focus_area,
                         Fallbacks(enhanced_prompt(base_prompt, market_perspective,
                                                   focus_area, previous_advice_count)))
            Looks(profile) ==
                IF profile = <<>>
                THEN req' = [req EXCEPT ![r] = Return(arrived, 302, "", "create_profile")]
                ELSE Builds(profile, format_prompt(profile_data(profile[1])),
                            AdviceCount(InvestmentAdvice, user))
        IN Looks(ProfileOf(user))
    /\ UNCHANGED <<FinancialProfile, ChatMessage, InvestmentAdvice, now, ties, client, call>>

\* views.py 421-442 and 169-175: the advice is formatted, its wrapper is
\* stripped, the row is created, the view redirects to it.  Nothing catches
\* an exception of the formatter: the request ends as a server error.
AdvicePersist(r) ==
    /\ req[r].pc = "persist"
    /\ LET Saves(formatted_content, title) ==
               \E created_at \in Stamps(LatestAdviceBy, r) :
                   /\ InvestmentAdvice' =
                          CreateInvestmentAdvice(InvestmentAdvice, req[r].user,
                                                 req[r].profile[1], title,
                                                 formatted_content, created_at, r)
                   /\ now' = created_at
                   /\ ties' = IF created_at = now THEN ties + 1 ELSE ties
                   /\ req' = [req EXCEPT ![r] =
                               [Return(@, 302, "", "view_advice") EXCEPT
                                   !.adviceId = Len(InvestmentAdvice) + 1]]
       IN IF req[r].response.t # "str"
          THEN /\ req' = [req EXCEPT ![r] = Return(@, 500, "TypeError", "")]
               /\ UNCHANGED <<InvestmentAdvice, now, ties>>
          ELSE Saves(StripWrapper(format_investment_advice(req[r].response.v)),
                     AdviceTitle(req[r].focus_area, req[r].profile[1]))
    /\ UNCHANGED <<FinancialProfile, ChatMessage, client, call>>

-----------------------------------------------------------------------------
(* The system *)

\* What an earlier turn with the remote text "Buy bonds" left stored.
StoredBuyBonds == StripWrapper(format_investment_advice(Txt("Buy bonds")))

\* The advice row that the creation of each profile left stored; the requests
\* before those of the model have negative numbers.
StoredAdvice(profiles, content) ==
    [i \in 1..Len(profiles) |->
        [id |-> i, user |-> profiles[i].user, profile |-> profiles[i].user,
         title |-> AdviceTitle(FocusCandidates(profiles[i])[1], profiles[i]),
         content |-> content, created_at |-> i, request |-> 0 - i]]

\* The rows of n earlier chat turns of u1 and of one of u2, which came before
\* the last of u1, with timestamps from first on.
StoredChat(n, first, reply) ==
    [i \in 1..(2 * (n + 1)) |->
        [id |-> i,
         user |-> IF (i + 1) \div 2 = n THEN "u2" ELSE "u1",
         message_type |-> IF i % 2 = 1 THEN "user" ELSE "advisor",
         content |-> IF i % 2 = 1 THEN Txt("hi") ELSE reply,
         timestamp |-> first + i - 1,
         turn |-> 0 - ((i + 1) \div 2)]]

\* No direct call: what is called (fn), its argument (input), the text it
\* returned (output) and the text it returned for that in turn (again), or
\* the rows it listed (rows) and the history it made of them (history); runs
\* counts the runs of fix_old_responses.py; advice_id is the id in the URL of
\* view_advice, status the status of the response of a view and profile the
\* profile it shows.
NoCall ==
    [pc |-> "idle", fn |-> "", input |-> EmptyText, output |-> EmptyText,
     again |-> EmptyText, rows |-> <<>>, history |-> <<>>, runs |-> 0,
     advice_id |-> 0, status |-> 0, profile |-> <<>>]

IdleClient == [pc |-> "idle", prompt |-> EmptyText, outcome |-> NoOutcome, result |-> Null]

\* u1 and u2 have created their profiles, which left one advice each, and have
\* chatted; u3 has only registered.
Init ==
    /\ FinancialProfile = {P1, P2}
    /\ LET Stored(advice_rows, chat_rows) ==
               /\ InvestmentAdvice = advice_rows
               /\ ChatMessage = chat_rows
               /\ now = Len(advice_rows) + Len(chat_rows)
           Rows(reply) ==
               Stored(StoredAdvice(<<P1, P2>>, reply),
                      StoredChat(MaxPreTurns, Len(<<P1, P2>>) + 1, reply))
       IN Rows(StoredBuyBonds)
    /\ ties = 0
    /\ req = [r \in 1..MaxReq |-> NoRequest]
    /\ client = IdleClient
    /\ call = NoCall

Next ==
    \E r \in 1..MaxReq :
        \/ ChatReceive(r)
        \/ ChatQuery(r)
        \/ ChatRespond(r)
        \/ AdviceRequest(r)
        \/ AdvicePersist(r)

Spec == Init /\ [][Next]_vars

-----------------------------------------------------------------------------
(* The Model Client on its own *)

\* Prompts of both builders and free text.
ClientPrompts ==
    {Txt("hello"), Txt("Should I retire?"), <<"low risk", "plan for my HOME">>,
     Txt("aggressive crypto please"), Txt("what now?"), EmptyText,
     chat_prompt(P2, <<>>, Txt("hi")),
     enhanced_prompt(format_prompt(profile_data(P1)), market_perspectives[1],
                     FocusCandidates(P1)[1], 0)}

\* Every kind of outcome of the POST.
AllOutcomes ==
    Outcomes \cup
    {Outcome("Timeout", 0, NoBody),
     Outcome("Exception", 0, NoBody),
     Outcome("response", 500, NoBody),
     Outcome("response", 404, Body("object", TRUE, Str(Txt("Buy bonds")))),
     Outcome("response", 201, Body("object", TRUE, Str(Txt("Buy bonds")))),
     Outcome("response", 304, Body("object", TRUE, Str(Txt("Buy bonds")))),
     Outcome("response", 200, Body("invalid", FALSE, Null)),
     Outcome("response", 200, Body("array", FALSE, Null)),
     Outcome("response", 200, Body("object", FALSE, Null)),
     Outcome("response", 200, Body("object", TRUE, Null)),
     Outcome("response", 200, Body("object", TRUE, Num("0")))}

InitClient ==
    /\ FinancialProfile = {}
    /\ ChatMessage = <<>>
    /\ InvestmentAdvice = <<>>
    /\ now = 0
    /\ ties = 0
    /\ req = [r \in 1..MaxReq |-> NoRequest]
    /\ \E prompt \in ClientPrompts :
        client = [IdleClient EXCEPT !.pc = "ready", !.prompt = prompt]
    /\ call = NoCall

\* query_ollama(prompt) for one outcome of the POST and one random draw of
\* the fallback generator
ClientCall ==
    /\ client.pc = "ready"
    /\ \E outcome \in AllOutcomes, fallback \in Fallbacks(client.prompt) :
        client' = [client EXCEPT !.pc = "returned", !.outcome = outcome,
                                 !.result = query_ollama(outcome, fallback)]
    /\ UNCHANGED <<FinancialProfile, ChatMessage, InvestmentAdvice, now, ties, req, call>>

NextClient == ClientCall

SpecClient == InitClient /\ [][NextClient]_vars

-----------------------------------------------------------------------------
(* The Response Formatter on its own *)

\* Raw model text, text with markup that is not allowed, text with the
\* wrapper in it, around it once and around it twice, and every kind of
\* document of the Fallback Generator.
FormatterInputs ==
    {Txt("Buy bonds"),
     <<"Hold gold", "and bonds">>,
     <<"<ul>", "<li>a</li>", "</ul>">>,
     <<"<div>a</div>", "", "tail">>,
     Txt("<script>alert(1)</script>"),
     Txt("<p onclick=\"steal()\" class=\"x\">Hi</p>"),
     Txt("See <a href=\"u\" onclick=\"x()\">this</a> now"),
     Txt("pre <div class=\"advice-content\">Hold</div> post"),
     Txt("<div class=\"advice-content\">Hold</div>"),
     Txt("<div class=\"advice-content\"><div class=\"advice-content\">Hold</div></div>"),
     Txt(EscapedWrapper \o "Hold&lt;/div&gt;"),
     Txt("<h3>Plan</h3>"),
     <<"<ol>", "<li>b</li>", "</ol>">>,
     Txt("<p style=\"color: red\">Hot</p>"),
     <<"<h4 id=\"top\" onclick=\"x()\">Bonds</h4>", "<script src=\"u\"></script>">>}
    \cup {TemplateResponse(mentioned, risk_profile, MinResponseId) :
             mentioned \in {<<>>, <<"retirement", "tax">>}, risk_profile \in RiskProfiles}
    \cup {QuestionResponse(mentioned, risk_profile, MinResponseId) :
             mentioned \in {<<topics[k].topic>> : k \in DOMAIN topics}
                            \cup {<<"stocks", "debt">>},
             risk_profile \in RiskProfiles}

InitFormatter ==
    /\ FinancialProfile = {}
    /\ ChatMessage = <<>>
    /\ InvestmentAdvice = <<>>
    /\ now = 0
    /\ ties = 0
    /\ req = [r \in 1..MaxReq |-> NoRequest]
    /\ client = IdleClient
    /\ \E raw_response \in FormatterInputs :
        call = [NoCall EXCEPT !.pc = "ready", !.fn = "format_investment_advice",
                              !.input = raw_response]

\* format_investment_advice(raw_response)
FormatOnce ==
    /\ call.pc = "ready"
    /\ call.fn = "format_investment_advice"
    /\ call' = [call EXCEPT !.pc = "once",
                            !.output = format_investment_advice(call.input)]
    /\ UNCHANGED <<FinancialProfile, ChatMessage, InvestmentAdvice, now, ties, req, client>>

\* format_investment_advice of what format_investment_advice returned, as
\* fix_old_responses.py does with stored content
FormatTwice ==
    /\ call.pc = "once"
    /\ call.fn = "format_investment_advice"
    /\ call' = [call EXCEPT !.pc = "twice",
                            !.again = format_investment_advice(call.output)]
    /\ UNCHANGED <<FinancialProfile, ChatMessage, InvestmentAdvice, now, ties, req, client>>

NextFormatter == FormatOnce \/ FormatTwice

SpecFormatter == InitFormatter /\ [][NextFormatter]_vars

-----------------------------------------------------------------------------
(* The Fallback Generator on its own *)

\* Free text in both letter cases, with and without a question, with no
\* topic, one topic and several topics, and the empty prompt.
GeneratorPrompts ==
    {EmptyText,
     Txt("hello"),
     Txt("what now?"),
     Txt("Should I retire?"),
     Txt("What should I do for retirement?"),
     Txt("conservative plan"),
     Txt("A CONSERVATIVE plan for my pension"),
     Txt("Is a conservative stock plan good?"),
     Txt("How conservative?"),
     Txt("conservative or aggressive"),
     Txt("aggressive, not conservative, in bonds?"),
     Txt("low risk"),
     Txt("high risk bitcoin"),
     Txt("high risk?"),
     Txt("Why gold and tax and bonds?"),
     Txt("which house"),
     Txt("I am Duncan"),
     Txt("gold, then tax"),
     <<"low risk", "plan for my HOME">>,
     <<"Conservative saver.", "", "Is my retirement fund safe?">>}

\* How many values the response_id takes when the generator runs on its own.
MaxGeneratorIds == 2

GeneratorIds == MinResponseId..(MinResponseId + MaxGeneratorIds - 1)

InitGenerator ==
    /\ FinancialProfile = {}
    /\ ChatMessage = <<>>
    /\ InvestmentAdvice = <<>>
    /\ now = 0
    /\ ties = 0
    /\ req = [r \in 1..MaxReq |-> NoRequest]
    /\ client = IdleClient
    /\ \E prompt \in GeneratorPrompts :
        call = [NoCall EXCEPT !.pc = "ready", !.fn = "generate_mock_investment_advice",
                              !.input = prompt]

\* generate_mock_investment_advice(prompt) for one draw of random.sample and
\* one of random.randint
GenerateCall ==
    /\ call.pc = "ready"
    /\ call.fn = "generate_mock_investment_advice"
    /\ \E sample \in Samples, response_id \in GeneratorIds :
        call' = [call EXCEPT !.pc = "returned",
                             !.output = generate_mock_investment_advice(
                                            call.input, sample, response_id)]
    /\ UNCHANGED <<FinancialProfile, ChatMessage, InvestmentAdvice, now, ties, req, client>>

NextGenerator == GenerateCall

SpecGenerator == InitGenerator /\ [][NextGenerator]_vars

-----------------------------------------------------------------------------
(* One-shot advice for a very conservative profile *)

\* Profiles with risk_tolerance 1 that differ in name, occupation and goal.
P3 ==
    [P1 EXCEPT !.name = "Duncan", !.age = 52, !.occupation = "Teacher",
               !.investment_goal = "wealth"]

P4 ==
    [P1 EXCEPT !.name = "Meera", !.age = 41, !.occupation = "American diplomat",
               !.investment_goal = "home"]

AdviceProfiles == {P1, P3, P4}

\* u1 has created one of the profiles, which left one advice; u3 has only
\* registered.
InitAdvice ==
    /\ \E profile \in AdviceProfiles :
        /\ FinancialProfile = {profile}
        /\ InvestmentAdvice = StoredAdvice(<<profile>>, StoredBuyBonds)
    /\ ChatMessage = <<>>
    /\ now = 1
    /\ ties = 0
    /\ req = [r \in 1..MaxReq |-> NoRequest]
    /\ client = IdleClient
    /\ call = NoCall

NextAdvice ==
    \E r \in 1..MaxReq :
        \/ AdviceRequest(r)
        \/ AdvicePersist(r)

SpecAdvice == InitAdvice /\ [][NextAdvice]_vars

-----------------------------------------------------------------------------
(* The profile views: views.py 92-149, forms.py 29-89, models.py 148-176 *)

\* forms.py 74-89: FinancialProfileForm.clean, which looks at the amounts only
\* when income and expenses are both truthy, and at the savings only when
\* they are truthy; <<>> when it raises nothing
FormClean(data) ==
    IF data.monthly_income # 0 /\ data.monthly_expenses # 0
    THEN IF data.monthly_expenses > data.monthly_income
         THEN <<"Monthly expenses cannot be greater than monthly income">>
         ELSE IF data.monthly_savings # 0
                 /\ data.monthly_savings > data.monthly_income - data.monthly_expenses
         THEN <<"Monthly savings cannot be greater than (income - expenses)">>
         ELSE <<>>
    ELSE <<>>

\* A faulty variant: the model looks at the amounts as the form does.
ModelClean_AsForm(profile) == FormClean(profile)

\* models.py 148-159: FinancialProfile.clean
ModelClean(profile) ==
    IF profile.monthly_expenses > profile.monthly_income
    THEN <<"Monthly expenses cannot be greater than monthly income">>
    ELSE IF profile.monthly_savings > profile.monthly_income - profile.monthly_expenses
    THEN <<"Monthly savings cannot be greater than (income - expenses)">>
    ELSE <<>>

\* A faulty variant: the user's other profiles are not looked for.
validate_unique_Skipped(profile) == <<>>

\* models.py 38 and 175: full_clean validates that the user, a OneToOneField,
\* has no profile yet
validate_unique(profile) ==
    IF \E p \in FinancialProfile : p.user = profile.user
    THEN <<"Financial profile with this User already exists.">>
    ELSE <<>>

\* forms.py 34: the form has every field but user, annual_income and savings
\* (and the two timestamps); construct_instance writes its cleaned data into
\* the instance.
ConstructInstance(instance, data) ==
    [instance EXCEPT !.name = data.name, !.age = data.age,
                     !.occupation = data.occupation,
                     !.monthly_income = data.monthly_income,
                     !.monthly_expenses = data.monthly_expenses,
                     !.monthly_savings = data.monthly_savings,
                     !.risk_tolerance = data.risk_tolerance,
                     !.investment_goal = data.investment_goal]

\* FinancialProfile(): the defaults of the fields (models.py 55-79)
NewInstance ==
    [user |-> "", name |-> "", age |-> 0, occupation |-> "",
     monthly_income |-> 0, monthly_expenses |-> 0, monthly_savings |-> 0,
     annual_income |-> 0, savings |-> 0, risk_tolerance |-> "3",
     investment_goal |-> "retirement"]

\* form.is_valid(): the errors of FinancialProfileForm.clean and, from the
\* model form's _post_clean, of FinancialProfile.clean on the constructed
\* instance
FormErrors(instance, data) ==
    FormClean(data) \o ModelClean(ConstructInstance(instance, data))

\* views.py 109-110
DerivedAtCreate(profile) ==
    [profile EXCEPT !.annual_income = profile.monthly_income * MonthsPerYear,
                    !.savings = profile.monthly_savings * MonthsPerYear]

\* models.py 163-173: what FinancialProfile.save works out before it
\* validates.  The yearly income is twelve monthly ones whenever it is set
\* here, so the division is exact.
SaveDerived(profile) ==
    LET annual_income ==
            IF profile.annual_income = 0 /\ profile.monthly_income # 0
            THEN profile.monthly_income * MonthsPerYear ELSE profile.annual_income
        monthly_income ==
            IF profile.monthly_income = 0 /\ annual_income # 0
            THEN annual_income \div MonthsPerYear ELSE profile.monthly_income
        savings ==
            IF profile.savings = 0 THEN profile.monthly_savings * MonthsPerYear
            ELSE profile.savings
    IN [profile EXCEPT !.annual_income = annual_income,
                       !.monthly_income = monthly_income, !.savings = savings]

\* What the profile form is posted with: the amounts of the stored profile,
\* amounts with a zero, and amounts that break each rule with and without a
\* zero.
Amounts ==
    {<<50000, 30000, 15000>>, <<60000, 30000, 15000>>, <<0, 0, 0>>,
     <<40000, 0, 10000>>, <<50000, 60000, 0>>, <<50000, 30000, 25000>>,
     <<0, 100, 0>>, <<50000, 0, 60000>>, <<0, 0, 100>>}

Submissions ==
    {[name |-> "Kiran", age |-> 35, occupation |-> "Nurse",
      monthly_income |-> a[1], monthly_expenses |-> a[2], monthly_savings |-> a[3],
      risk_tolerance |-> "3", investment_goal |-> "wealth"] : a \in Amounts}

\* views.py 96-104 and 119-125: the profile is looked up (there is one:
\* redirect to its update), the posted form is validated (errors: the form
\* is shown again with them).
CreateProfileCheck(r) ==
    /\ req[r].pc = "new"
    /\ Arrived(r)
    /\ \E user \in Requesters, data \in Submissions :
        LET arrived == [req[r] EXCEPT !.kind = "create", !.user = user, !.form = <<data>>]
            Validated(errors) ==
                IF errors # <<>>
                THEN req' = [req EXCEPT ![r] = Return(arrived, 200, errors[1], "")]
                ELSE req' = [req EXCEPT ![r] =
                               [arrived EXCEPT
                                   !.pc = "save",
                                   !.profile = <<ConstructInstance(NewInstance, data)>>]]
        IN IF ProfileOf(user) # <<>>
           THEN req' = [req EXCEPT ![r] = Return(arrived, 302, "", "update_profile")]
           ELSE Validated(FormErrors(NewInstance, data))
    /\ UNCHANGED <<FinancialProfile, ChatMessage, InvestmentAdvice, now, ties, client, call>>

\* views.py 105-112 and 115, with views.py 351-419: the user and the yearly
\* figures are set and the profile is saved; FinancialProfile.save validates
\* it, the user's having no other profile included (models.py 38 and 175),
\* and nothing catches what it raises.  Then the first advice is asked for.
CreateProfileSave(r) ==
    /\ req[r].pc = "save"
    /\ req[r].kind = "create"
    /\ LET Asks(profile, focus_area, fallbacks) ==
               \E outcome \in Outcomes, fallback \in fallbacks :
                   req' = [req EXCEPT ![r] =
                             [@ EXCEPT !.pc = "advise", !.profile = <<profile>>,
                                       !.focus_area = focus_area,
                                       !.outcome = outcome,
                                       !.response = query_ollama(outcome, fallback),
                                       !.calls = @ + 1,
                                       !.posts = @ + QueryEffects(outcome).posts,
                                       !.mocks = @ + QueryEffects(outcome).mocks]]
           Builds(profile, previous_advice_count) ==
               \E focus_area \in FocusDrawn(profile),
                  market_perspective \in PerspectivesDrawn :
                   Asks(profile, focus_area,
                        Fallbacks(enhanced_prompt(format_prompt(profile_data(profile)),
                                                  market_perspective, focus_area,
                                                  previous_advice_count)))
           Saves(profile) ==
               IF ModelClean(profile) \o validate_unique(profile) # <<>>
               THEN /\ req' = [req EXCEPT ![r] = Return(@, 500, "ValidationError", "")]
                    /\ UNCHANGED FinancialProfile
               ELSE /\ FinancialProfile' = FinancialProfile \cup {profile}
                    /\ Builds(profile, AdviceCount(InvestmentAdvice, profile.user))
       IN Saves(SaveDerived(DerivedAtCreate(
                    [req[r].profile[1] EXCEPT !.user = req[r].user])))
    /\ UNCHANGED <<ChatMessage, InvestmentAdvice, now, ties, client, call>>

\* views.py 115-118, with views.py 421-442: the advice is formatted and
\* stored, the view redirects to the dashboard.
CreateProfileAdvise(r) ==
    /\ req[r].pc = "advise"
    /\ LET Saves(formatted_content, title) ==
               \E created_at \in Stamps(LatestAdviceBy, r) :
                   /\ InvestmentAdvice' =
                          CreateInvestmentAdvice(InvestmentAdvice, req[r].user,
                                                 req[r].profile[1], title,
                                                 formatted_content, created_at, r)
                   /\ now' = created_at
                   /\ ties' = IF created_at = now THEN ties + 1 ELSE ties
                   /\ req' = [req EXCEPT ![r] =
                               [Return(@, 302, "", "dashboard") EXCEPT
                                   !.adviceId = Len(InvestmentAdvice) + 1]]
       IN IF req[r].response.t # "str"
          THEN /\ req' = [req EXCEPT ![r] = Return(@, 500, "TypeError", "")]
               /\ UNCHANGED <<InvestmentAdvice, now, ties>>
          ELSE Saves(StripWrapper(format_investment_advice(req[r].response.v)),
                     AdviceTitle(req[r].focus_area, req[r].profile[1]))
    /\ UNCHANGED <<FinancialProfile, ChatMessage, client, call>>

\* views.py 132-136 and 140-149: the profile is looked up (none: redirect to
\* its creation), the posted form is validated against it.
UpdateProfileLoad(r) ==
    /\ req[r].pc = "new"
    /\ Arrived(r)
    /\ \E user \in Requesters, data \in Submissions :
        LET arrived == [req[r] EXCEPT !.kind = "update", !.user = user, !.form = <<data>>]
            Validated(profile, errors) ==
                IF errors # <<>>
                THEN req' = [req EXCEPT ![r] = Return(arrived, 200, errors[1], "")]
                ELSE req' = [req EXCEPT ![r] =
                               [arrived EXCEPT
                                   !.pc = "save",
                                   !.profile = <<ConstructInstance(profile, data)>>]]
            Looks(profile) ==
                IF profile = <<>>
                THEN req' = [req EXCEPT ![r] = Return(arrived, 302, "", "create_profile")]
                ELSE Validated(profile[1], FormErrors(profile[1], data))
        IN Looks(ProfileOf(user))
    /\ UNCHANGED <<FinancialProfile, ChatMessage, InvestmentAdvice, now, ties, client, call>>

\* views.py 137-139: form.save() saves the instance, which is the row of the
\* user, with FinancialProfile.save; the view redirects to the dashboard.
UpdateProfileSave(r) ==
    /\ req[r].pc = "save"
    /\ req[r].kind = "update"
    /\ LET Saves(profile) ==
               IF ModelClean(profile) # <<>>
               THEN /\ req' = [req EXCEPT ![r] = Return(@, 500, "ValidationError", "")]
                    /\ UNCHANGED FinancialProfile
               ELSE /\ FinancialProfile' =
                          {p \in FinancialProfile : p.user # profile.user} \cup {profile}
                    /\ req' = [req EXCEPT ![r] = Return(@, 302, "", "dashboard")]
       IN Saves(SaveDerived(req[r].profile[1]))
    /\ UNCHANGED <<ChatMessage, InvestmentAdvice, now, ties, client, call>>

\* u1 has created the profile P1, which left one advice; u3 has only
\* registered.
InitProfile ==
    /\ FinancialProfile = {P1}
    /\ InvestmentAdvice = StoredAdvice(<<P1>>, StoredBuyBonds)
    /\ ChatMessage = <<>>
    /\ now = 1
    /\ ties = 0
    /\ req = [r \in 1..MaxReq |-> NoRequest]
    /\ client = IdleClient
    /\ call = NoCall

NextProfile ==
    \E r \in 1..MaxReq :
        \/ CreateProfileCheck(r)
        \/ CreateProfileSave(r)
        \/ CreateProfileAdvise(r)
        \/ UpdateProfileLoad(r)
        \/ UpdateProfileSave(r)

SpecProfile == InitProfile /\ [][NextProfile]_vars

-----------------------------------------------------------------------------
(* The history views: views.py 197-201 and 316-345 *)

\* Every order of the rows that differs from one of S only in the places of
\* rows with the same key.
RECURSIVE TieOrdersBy(_, _)
TieOrdersBy(key(_), S) ==
    LET swaps(s) == {SwapAt(s, i) :
                        i \in {j \in 1..(Len(s) - 1) : key(s[j]) = key(s[j + 1])}}
        Closed(more) == IF more = S THEN S ELSE TieOrdersBy(key, more)
    IN Closed(S \cup UNION {swaps(s) : s \in S})

\* A faulty variant: the rows are ordered by descending timestamp.
chat_messages_Descending(rows, user) ==
    TieOrders({Reverse(FilterUser(rows, user))})

\* views.py 322: filter(user=request.user).order_by('timestamp').  Rows are
\* stored with timestamps that never decrease, so the stored order is one
\* ascending order; rows with equal timestamps come in any order.
chat_messages(rows, user) ==
    TieOrders({FilterUser(rows, user)})

\* views.py 200: filter(user=request.user).order_by('-created_at')
advice_list(rows, user) ==
    LET created_at(a) == a.created_at
        mine(a) == a.user = user
    IN TieOrdersBy(created_at, {Reverse(SelectSeq(rows, mine))})

\* How many timestamps of the stored rows fall within one second of the clock.
MaxPerSecond == 2

\* views.py 339: msg.timestamp.strftime('%Y-%m-%d %H:%M:%S'), the timestamp
\* cut to its second
strftime(timestamp) ==
    "2026-11-01 " \o current_time \o ":" \o TwoDigits(timestamp \div MaxPerSecond)

\* views.py 324-340
history(chat) ==
    [i \in DOMAIN chat |->
        [type |-> chat[i].message_type,
         content |-> chat[i].content,
         formatted_content |-> chat[i].content,
         timestamp |-> strftime(chat[i].timestamp)]]

\* How many rows each table holds at most when a history is asked for.
MaxHistoryRows == 3

\* The owners of n stored rows, and their timestamps: each the same as the
\* one before or the next.
HistoryOwners(n) == [1..n -> {"u1", "u2"}]

HistoryStamps(n) ==
    {s \in [1..n -> 1..n] :
        \A i \in 1..n : IF i = 1 THEN s[i] = 1 ELSE s[i] \in {s[i - 1], s[i - 1] + 1}}

\* The chat rows of these owners: the rows of a user are by turns the user's
\* and the advisor's.
HistoryChat(owners, stamps) ==
    [i \in DOMAIN owners |->
        LET earlier == Cardinality({j \in 1..(i - 1) : owners[j] = owners[i]}) IN
        [id |-> i, user |-> owners[i],
         message_type |-> IF earlier % 2 = 0 THEN "user" ELSE "advisor",
         content |-> IF earlier % 2 = 0 THEN Txt("hi") ELSE StoredBuyBonds,
         timestamp |-> stamps[i],
         turn |-> 0 - i]]

HistoryAdvice(owners, stamps) ==
    [i \in DOMAIN owners |->
        LET profile == IF owners[i] = "u1" THEN P1 ELSE P2 IN
        [id |-> i, user |-> owners[i], profile |-> owners[i],
         title |-> AdviceTitle(FocusCandidates(profile)[1], profile),
         content |-> StoredBuyBonds, created_at |-> stamps[i], request |-> 0 - i]]

\* u1 and u2 have profiles and rows in both tables; one of them asks for a
\* history.
InitHistory ==
    /\ FinancialProfile = {P1, P2}
    /\ \E n \in 0..MaxHistoryRows :
        \E owners \in HistoryOwners(n), stamps \in HistoryStamps(n) :
            /\ ChatMessage = HistoryChat(owners, stamps)
            /\ InvestmentAdvice = HistoryAdvice(owners, stamps)
            /\ now = IF n = 0 THEN 0 ELSE stamps[n]
            /\ ties = Cardinality({i \in 2..n : stamps[i] = stamps[i - 1]})
    /\ req = [r \in 1..MaxReq |-> NoRequest]
    /\ client = IdleClient
    /\ \E fn \in {"get_chat_history", "advice_history"}, user \in {"u1", "u2"} :
        call = [NoCall EXCEPT !.pc = "ready", !.fn = fn, !.input = Txt(user)]

\* views.py 318-342: get_chat_history for the user who asks
GetChatHistory ==
    /\ call.pc = "ready"
    /\ call.fn = "get_chat_history"
    /\ \E chat \in chat_messages(ChatMessage, call.input[1]) :
        call' = [call EXCEPT !.pc = "returned", !.rows = chat, !.history = history(chat)]
    /\ UNCHANGED <<FinancialProfile, ChatMessage, InvestmentAdvice, now, ties, req, client>>

\* views.py 198-201: advice_history for the user who asks
AdviceHistory ==
    /\ call.pc = "ready"
    /\ call.fn = "advice_history"
    /\ \E advice_rows \in advice_list(InvestmentAdvice, call.input[1]) :
        call' = [call EXCEPT !.pc = "returned", !.rows = advice_rows]
    /\ UNCHANGED <<FinancialProfile, ChatMessage, InvestmentAdvice, now, ties, req, client>>

NextHistory == GetChatHistory \/ AdviceHistory

SpecHistory == InitHistory /\ [][NextHistory]_vars

-----------------------------------------------------------------------------
(* The views of a user's rows next to the requests of another user:
   views.py 77-89 and 181-201 *)

\* A faulty variant: the lookup forgets the user.
get_advice_AnyOwner(rows, advice_id, user) ==
    SelectSeq(rows, LAMBDA row : row.id = advice_id)

\* views.py 184: get_object_or_404(InvestmentAdvice, id=advice_id,
\* user=request.user): <<row>>, or <<>> for Http404
get_advice(rows, advice_id, user) ==
    SelectSeq(rows, LAMBDA row : row.id = advice_id /\ row.user = user)

\* What a view answers: the status, and the profile, the advice rows and the
\* chat rows that it hands to its template.
Shown(status, profile, rows, chat) ==
    [status |-> status, profile |-> profile, rows |-> rows, chat |-> chat]

\* views.py 78-89: every answer of dashboard for the user; profile is what
\* FinancialProfile.objects.get(user=request.user) gives.
dashboard(profile, advice_rows, user) ==
    IF profile = <<>> THEN {Shown(302, <<>>, <<>>, <<>>)}
    ELSE {Shown(200, profile, listed, <<>>) :
             listed \in advice_list(advice_rows, user)}

\* views.py 182-194: every answer of view_advice for the user
view_advice(advice_rows, chat_rows, advice_id, user) ==
    LET Found(found) ==
            IF found = <<>> THEN {Shown(404, <<>>, <<>>, <<>>)}
            ELSE {Shown(200, <<>>, found, chat) :
                     chat \in chat_messages(chat_rows, user)}
    IN Found(get_advice(advice_rows, advice_id, user))

\* The users who ask, and the ids in the URL of view_advice: those of the
\* advice of u1 and of u2 stored at first, and the next one.
Viewers == {"u1", "u2", "u3"}

MaxAdviceId == 3

ViewCalls ==
    {[fn |-> fn, advice_id |-> 0] :
        fn \in {"dashboard", "advice_history", "get_chat_history"}}
    \cup {[fn |-> "view_advice", advice_id |-> id] : id \in 1..MaxAdviceId}

\* The system as it starts, and a user who is about to ask for a view.
InitOwnership ==
    /\ FinancialProfile = {P1, P2}
    /\ InvestmentAdvice = StoredAdvice(<<P1, P2>>, StoredBuyBonds)
    /\ ChatMessage = StoredChat(MaxPreTurns, Len(<<P1, P2>>) + 1, StoredBuyBonds)
    /\ now = Len(InvestmentAdvice) + Len(ChatMessage)
    /\ ties = 0
    /\ req = [r \in 1..MaxReq |-> NoRequest]
    /\ client = IdleClient
    /\ \E view \in ViewCalls, user \in Viewers :
        call = [NoCall EXCEPT !.pc = "ready", !.fn = view.fn, !.input = Txt(user),
                              !.advice_id = view.advice_id]

\* views.py 78-89: dashboard for the user who asks
Dashboard ==
    /\ call.pc = "ready"
    /\ call.fn = "dashboard"
    /\ \E shown \in dashboard(ProfileOf(call.input[1]), InvestmentAdvice, call.input[1]) :
        call' = [call EXCEPT !.pc = "returned", !.status = shown.status,
                             !.profile = shown.profile, !.rows = shown.rows]
    /\ UNCHANGED <<FinancialProfile, ChatMessage, InvestmentAdvice, now, ties, req, client>>

\* views.py 182-194: view_advice for the user who asks
ViewAdvice ==
    /\ call.pc = "ready"
    /\ call.fn = "view_advice"
    /\ \E shown \in view_advice(InvestmentAdvice, ChatMessage, call.advice_id,
                                 call.input[1]) :
        call' = [call EXCEPT !.pc = "returned", !.status = shown.status,
                             !.rows = shown.rows, !.history = shown.chat]
    /\ UNCHANGED <<FinancialProfile, ChatMessage, InvestmentAdvice, now, ties, req, client>>

\* One request of u1 or u3, and the view of the user who asks, before,
\* during or after it.
NextOwnership ==
    \/ ChatReceive(1)
    \/ ChatQuery(1)
    \/ ChatRespond(1)
    \/ AdviceRequest(1)
    \/ AdvicePersist(1)
    \/ Dashboard
    \/ ViewAdvice
    \/ AdviceHistory
    \/ GetChatHistory

SpecOwnership == InitOwnership /\ [][NextOwnership]_vars

-----------------------------------------------------------------------------
(* The maintenance scripts: fix_old_responses.py, reset_db.py and
   advisor/management/commands/clear_data.py *)

\* How often fix_old_responses.py is run.
MaxFixRuns == 2

\* fix_old_responses.py 25-37 and 50-62: the content of each of the rows
\* chosen is replaced by what format_investment_advice returns for it, and
\* the row is saved.
Reformat(rows, Chosen(_)) ==
    [i \in DOMAIN rows |->
        IF Chosen(rows[i])
        THEN [rows[i] EXCEPT !.content = format_investment_advice(@)]
        ELSE rows[i]]

\* fix_old_responses.py 17-40: every InvestmentAdvice
fix_investment_advice(rows) == Reformat(rows, LAMBDA row : TRUE)

\* fix_old_responses.py 42-65: ChatMessage.objects.filter(message_type='advisor')
fix_chat_messages(rows) ==
    Reformat(rows, LAMBDA row : row.message_type = "advisor")

\* A script is started between two requests.
NoRequestOpen == \A r \in 1..MaxReq : req[r].pc \in {"new", "done"}

\* fix_old_responses.py 69: the first step of a run of the script
FixInvestmentAdvice ==
    /\ call.pc = "idle"
    /\ call.runs < MaxFixRuns
    /\ NoRequestOpen
    /\ InvestmentAdvice' = fix_investment_advice(InvestmentAdvice)
    /\ call' = [call EXCEPT !.pc = "advice_fixed", !.fn = "fix_old_responses"]
    /\ UNCHANGED <<FinancialProfile, ChatMessage, now, ties, req, client>>

\* fix_old_responses.py 70: the second step of a run of the script
FixChatMessages ==
    /\ call.pc = "advice_fixed"
    /\ ChatMessage' = fix_chat_messages(ChatMessage)
    /\ call' = [call EXCEPT !.pc = "idle", !.runs = @ + 1]
    /\ UNCHANGED <<FinancialProfile, InvestmentAdvice, now, ties, req, client>>

\* clear_data.py 16-30 and reset_db.py 19-32: the rows of the three tables
\* are deleted.
ClearData ==
    /\ call.pc = "idle"
    /\ NoRequestOpen
    /\ ChatMessage # <<>> \/ InvestmentAdvice # <<>> \/ FinancialProfile # {}
    /\ ChatMessage' = <<>>
    /\ InvestmentAdvice' = <<>>
    /\ FinancialProfile' = {}
    /\ UNCHANGED <<now, ties, req, client, call>>

\* One request of the system, before, during, between and after the runs of
\* the scripts.
NextBackfill ==
    \/ ChatReceive(1)
    \/ ChatQuery(1)
    \/ ChatRespond(1)
    \/ AdviceRequest(1)
    \/ AdvicePersist(1)
    \/ FixInvestmentAdvice
    \/ FixChatMessages
    \/ ClearData

SpecBackfill == Init /\ [][NextBackfill]_vars

-----------------------------------------------------------------------------
(* The vocabulary of the properties *)

Reqs == 1..MaxReq

HasProfile(user) == \E p \in FinancialProfile : p.user = user

\* The body is a JSON object whose message, "" when it has none, is a string.
HasStringMessage(body) == body.shape = "object" /\ GetOrEmpty(body).t = "str"

\* The message text that the request submitted.
Submitted(body) == GetOrEmpty(body).v

IsWhitespaceOnly(t) ==
    \A i \in DOMAIN t : \A k \in 1..Len(t[i]) : IsSpaceChar(SubSeq(t[i], k, k))

\* The request carries a message that is a string and not blank.
HasMessage(r) ==
    /\ req[r].kind = "chat"
    /\ HasStringMessage(req[r].body)
    /\ ~IsWhitespaceOnly(Submitted(req[r].body))

\* The rows that request r created.
ChatRowsOf(r) == {i \in DOMAIN ChatMessage : ChatMessage[i].turn = r}

AdviceRowsOf(r) == {i \in DOMAIN InvestmentAdvice : InvestmentAdvice[i].request = r}

AdvisorRowsOf(r) == {i \in ChatRowsOf(r) : ChatMessage[i].message_type = "advisor"}

Is2xx(status) == status >= 200 /\ status < 300

\* The reply is 2xx and its JSON "response" field is there and not empty.
HasRemoteText(outcome) ==
    /\ outcome.kind = "response"
    /\ Is2xx(outcome.status)
    /\ outcome.body.shape = "object"
    /\ outcome.body.has
    /\ outcome.body.field \notin {Null, Str(EmptyText), Num("0")}

-----------------------------------------------------------------------------
(* The Model Client *)

\* C1: query_ollama returns advice text for every outcome of the POST: the
\* remote text unchanged exactly when the reply is 2xx with a non-empty
\* "response" field, the output of generate_mock_investment_advice for the
\* same prompt in every other case.
C1_ClientReturnsAdviceText ==
    client.pc = "returned" =>
        /\ client.result.t = "str"
        /\ IF HasRemoteText(client.outcome)
           THEN client.result = client.outcome.body.field
           ELSE client.result \in {Str(f) : f \in Fallbacks(client.prompt)}

-----------------------------------------------------------------------------
(* The orchestrators *)

\* C2: for a user with a profile every one-shot advice request, and every chat
\* request with a non-empty message, ends with a success result and exactly
\* one new InvestmentAdvice (one-shot) or advisor ChatMessage (chat), whatever
\* the remote endpoint does.
C2_AlwaysProducesResult ==
    \A r \in Reqs :
        (/\ req[r].pc = "done"
         /\ HasProfile(req[r].user)
         /\ req[r].kind = "advice" \/ HasMessage(r))
        => IF req[r].kind = "advice"
           THEN /\ req[r].status = 302
                /\ req[r].location = "view_advice"
                /\ Cardinality(AdviceRowsOf(r)) = 1
           ELSE /\ req[r].status = 200
                /\ Cardinality(AdvisorRowsOf(r)) = 1

\* C3: a chat request whose message is empty or whitespace-only is answered
\* in one step with status 400 and an error body; the step creates no row,
\* changes no stored row, and the Model Client has not been called.
C3_BlankMessageRejected ==
    [][\A r \in Reqs :
          (/\ req[r].pc = "new"
           /\ req'[r].kind = "chat"
           /\ HasStringMessage(req'[r].body)
           /\ IsWhitespaceOnly(Submitted(req'[r].body)))
          => /\ req'[r].pc = "done"
             /\ req'[r].status = 400
             /\ req'[r].error # ""
             /\ req'[r].calls = 0
             /\ req'[r].userMsgId = 0
             /\ UNCHANGED <<FinancialProfile, ChatMessage, InvestmentAdvice>>]_vars

\* A blank message of a user with a profile has been rejected.
C3_Witness ==
    \E r \in Reqs :
        /\ req[r].pc = "done"
        /\ req[r].kind = "chat"
        /\ HasProfile(req[r].user)
        /\ HasStringMessage(req[r].body)
        /\ req[r].body.has
        /\ IsWhitespaceOnly(Submitted(req[r].body))
        /\ req[r].status = 400

\* C4: a chat request whose body is not parseable as the expected JSON object
\* is answered with status 400.
C4_MalformedIsBadRequest ==
    \A r \in Reqs :
        (req[r].pc = "done" /\ req[r].kind = "chat" /\ req[r].body.shape # "object")
        => req[r].status = 400

\* C5: a request of a user without a FinancialProfile is answered in the step
\* of its arrival, without a call of the Model Client and without a row of
\* its own: a one-shot request is sent to the creation of the profile, a chat
\* request with a message that is a string and not blank gets status 404.
C5_NoProfileNothingDone ==
    \A r \in Reqs :
        (req[r].kind # "none" /\ ~HasProfile(req[r].user))
        => /\ req[r].pc = "done"
           /\ req[r].calls = 0
           /\ ChatRowsOf(r) = {}
           /\ AdviceRowsOf(r) = {}
           /\ req[r].kind = "advice"
                 => req[r].status = 302 /\ req[r].location = "create_profile"
           /\ HasMessage(r)
                 => req[r].status = 404 /\ req[r].error = "Financial profile not found"

\* A chat request with a message of a user without a profile has got 404.
C5_Witness ==
    \E r \in Reqs :
        /\ req[r].pc = "done"
        /\ ~HasProfile(req[r].user)
        /\ HasMessage(r)
        /\ req[r].status = 404

\* C5 as stated: every chat request of a user without a profile gets 404.
C5_EveryChatNotFound ==
    \A r \in Reqs :
        (req[r].pc = "done" /\ req[r].kind = "chat" /\ ~HasProfile(req[r].user))
        => req[r].status = 404

\* inner is outer without its leading and trailing whitespace, for texts of
\* one line
IsStripOf(inner, outer) ==
    /\ Len(inner) = 1
    /\ Len(outer) = 1
    /\ \E i \in 1..Len(outer[1]) : \E j \in i..Len(outer[1]) :
        /\ inner[1] = SubSeq(outer[1], i, j)
        /\ ~IsSpaceChar(SubSeq(outer[1], i, i))
        /\ ~IsSpaceChar(SubSeq(outer[1], j, j))
        /\ \A k \in (1..(i - 1)) \cup ((j + 1)..Len(outer[1])) :
            IsSpaceChar(SubSeq(outer[1], k, k))

\* C6: the content of the stored user ChatMessage of a chat turn is the
\* submitted message text without its leading and trailing whitespace.
C6_UserMessageStoredStripped ==
    \A r \in Reqs :
        req[r].userMsgId # 0
        => /\ req[r].userMsgId \in ChatRowsOf(r)
           /\ ChatMessage[req[r].userMsgId].message_type = "user"
           /\ ChatMessage[req[r].userMsgId].user = req[r].user
           /\ IsStripOf(ChatMessage[req[r].userMsgId].content, Submitted(req[r].body))

\* A message that came with whitespace around it has been stored.
C6_Witness ==
    \E r \in Reqs :
        /\ req[r].userMsgId \in ChatRowsOf(r)
        /\ ChatMessage[req[r].userMsgId].content # Submitted(req[r].body)

\* C6 as stated: the stored content equals the submitted text character for
\* character.
C6_UserMessageStoredVerbatim ==
    \A r \in Reqs :
        req[r].userMsgId \in ChatRowsOf(r)
        => ChatMessage[req[r].userMsgId].content = Submitted(req[r].body)

\* C7: in a chat turn the user ChatMessage is saved before the Model Client
\* is called, the Model Client is called before the advisor ChatMessage is
\* saved, and that is saved before the response is returned; every advisor
\* ChatMessage comes in creation order after the user ChatMessage of the same
\* user and turn.
C7_TurnOrder ==
    /\ \A r \in Reqs :
        req[r].kind = "chat"
        => /\ req[r].pc \in {"query", "respond", "done"}
           /\ req[r].pc = "query" => req[r].userMsgId # 0 /\ req[r].calls = 0
           /\ req[r].calls > 0 => req[r].userMsgId \in ChatRowsOf(r)
           /\ req[r].pc = "respond" => req[r].calls = 1 /\ req[r].advisorMsgId = 0
           /\ req[r].advisorMsgId # 0
                 => /\ req[r].calls = 1
                    /\ req[r].advisorMsgId \in AdvisorRowsOf(r)
                    /\ req[r].userMsgId < req[r].advisorMsgId
                    /\ req[r].pc = "done"
           /\ (req[r].pc = "done" /\ req[r].status = 200) => req[r].advisorMsgId # 0
    /\ \A i \in DOMAIN ChatMessage :
        ChatMessage[i].message_type = "advisor"
        => \E j \in 1..(i - 1) :
            /\ ChatMessage[j].message_type = "user"
            /\ ChatMessage[j].user = ChatMessage[i].user
            /\ ChatMessage[j].turn = ChatMessage[i].turn

\* A chat turn has run to its end while another one of the same user was
\* under way.
C7_Witness ==
    \E r \in Reqs, q \in Reqs :
        /\ r # q
        /\ req[r].pc = "done"
        /\ req[r].status = 200
        /\ req[r].advisorMsgId \in AdvisorRowsOf(r)
        /\ req[q].userMsgId \in ChatRowsOf(q)
        /\ req[q].userMsgId > req[r].userMsgId
        /\ req[q].userMsgId < req[r].advisorMsgId

\* C8: the window of stored messages that a chat turn reads for its prompt
\* holds at most 10 rows, all of the requesting user, no stored row of the
\* user is later than a row of the window, and the rows are listed with
\* timestamps that never decrease.
C8_RecentWindow ==
    [][\A r \in Reqs :
          (req[r].pc = "query" /\ req'[r].pc = "respond")
          => LET w == req'[r].window
                 shown == {w[i] : i \in DOMAIN w}
                 mine == {i \in DOMAIN ChatMessage : ChatMessage[i].user = req[r].user}
             IN /\ Len(w) <= 10
                /\ Cardinality(shown) = Len(w)
                /\ shown \subseteq mine
                /\ Len(w) = 10 \/ shown = mine
                /\ \A i \in shown : \A j \in mine \ shown :
                       ChatMessage[j].timestamp <= ChatMessage[i].timestamp
                /\ \A i \in DOMAIN w : \A j \in DOMAIN w :
                       i < j => ChatMessage[w[i]].timestamp
                                    <= ChatMessage[w[j]].timestamp]_vars

\* A turn has read a full window that left out older rows of the user, with
\* rows of another user stored among them.
C8_Witness ==
    \E r \in Reqs :
        /\ Len(req[r].window) = 10
        /\ \E i \in DOMAIN ChatMessage :
            /\ ChatMessage[i].user = req[r].user
            /\ i < req[r].window[1]
        /\ \E i \in DOMAIN ChatMessage :
            /\ ChatMessage[i].user # req[r].user
            /\ i > req[r].window[1]

\* C9: each one-shot advice generation for a user with a profile leaves
\* exactly one new InvestmentAdvice row, owned by the user, tied to the
\* profile, with the title "Investment Advice: {focus area, title-cased} for
\* {name}" for a focus area of the candidate list of the profile's goal.
C9_ExactlyOneAdviceRow ==
    \A r \in Reqs :
        (req[r].pc = "done" /\ req[r].kind = "advice" /\ HasProfile(req[r].user))
        => \E i \in DOMAIN InvestmentAdvice : \E p \in FinancialProfile :
            /\ AdviceRowsOf(r) = {i}
            /\ p.user = req[r].user
            /\ InvestmentAdvice[i].user = req[r].user
            /\ InvestmentAdvice[i].profile = p.user
            /\ \E k \in DOMAIN FocusCandidates(p) :
                InvestmentAdvice[i].title =
                    "Investment Advice: " \o TitleS(FocusCandidates(p)[k])
                        \o " for " \o p.name

\* The formatted text with the wrapper around it again.
Wrapped(content) == Cat(Cat(Txt(WrapperOpen), content), Txt(WrapperClose))

\* C10: the content stored for a new InvestmentAdvice and for a new advisor
\* ChatMessage is the formatter's output for the Model Client's text without
\* the leading wrapper opening and the trailing "</div>"; the chat response
\* gives that stored string as response_html and the Model Client's text as
\* raw_response.
C10_StoredWithoutWrapper ==
    [][\A r \in Reqs :
          /\ (req[r].pc = "respond" /\ req'[r].advisorMsgId # 0)
             => /\ Len(ChatMessage') = Len(ChatMessage) + 1
                /\ req'[r].advisorMsgId = Len(ChatMessage')
                /\ Wrapped(ChatMessage'[Len(ChatMessage')].content)
                       = format_investment_advice(req[r].response.v)
                /\ req'[r].response_html = ChatMessage'[Len(ChatMessage')].content
                /\ req'[r].raw_response = req[r].response
          /\ (req[r].pc = "persist" /\ req'[r].adviceId # 0)
             => /\ Len(InvestmentAdvice') = Len(InvestmentAdvice) + 1
                /\ req'[r].adviceId = Len(InvestmentAdvice')
                /\ Wrapped(InvestmentAdvice'[Len(InvestmentAdvice')].content)
                       = format_investment_advice(req[r].response.v)]_vars

\* A chat turn and a one-shot request have both stored formatted text.
C10_Witness ==
    \E r \in Reqs, q \in Reqs :
        /\ req[r].advisorMsgId \in AdvisorRowsOf(r)
        /\ req[r].response_html = ChatMessage[req[r].advisorMsgId].content
        /\ req[r].raw_response.t = "str"
        /\ req[r].raw_response.v # req[r].response_html
        /\ req[q].adviceId \in AdviceRowsOf(q)

-----------------------------------------------------------------------------
(* The Response Formatter *)

\* C11: the Response Formatter is idempotent: formatting what the formatter
\* returned gives the same text again, for every input, raw or already
\* formatted.
C11_FormatterIdempotent ==
    call.pc = "twice" => call.again = call.output

\* The attributes of the start tag tag of the line l
TagAttrs(l, tag) ==
    AttrsOf(SubSeq(l, tag.from + 1 + Len(tag.name), tag.to - 1))

\* Every tag of the text t is a tag of the allow-list and every attribute of
\* a start tag is class or style.
OnlyAllowedMarkup(t) ==
    \A i \in DOMAIN t :
        LET Allowed(l, tags) ==
                \A k \in DOMAIN tags :
                    /\ tags[k].name \in allowed_tags
                    /\ tags[k].closing
                       \/ LET Named(attrs) ==
                                  \A a \in DOMAIN attrs : attrs[a].name \in allowed_attrs
                          IN Named(TagAttrs(l, tags[k]))
        IN Allowed(t[i], TagsOf(t[i]))

\* The text t has a tag of this name / a start tag with this attribute.
HasTag(t, name) ==
    \E i \in DOMAIN t :
        LET Among(tags) == \E k \in DOMAIN tags : tags[k].name = name
        IN Among(TagsOf(t[i]))

HasAttr(t, name) ==
    \E i \in DOMAIN t :
        LET Among(l, tags) ==
                \E k \in DOMAIN tags :
                    /\ ~tags[k].closing
                    /\ LET Named(attrs) == \E a \in DOMAIN attrs : attrs[a].name = name
                       IN Named(TagAttrs(l, tags[k]))
        IN Among(t[i], TagsOf(t[i]))

\* C12: for every input, each element of the formatter's output is one of
\* the allowed tags and carries only class and style attributes; an input
\* with a script tag or an onclick attribute yields output with neither (a
\* tag that is not allowed stays in the output as escaped text, not as a tag).
C12_OnlyAllowedMarkup ==
    /\ call.pc \in {"once", "twice"} =>
           /\ OnlyAllowedMarkup(call.output)
           /\ ~HasTag(call.output, "script")
           /\ ~HasAttr(call.output, "onclick")
    /\ call.pc = "twice" =>
           /\ OnlyAllowedMarkup(call.again)
           /\ ~HasTag(call.again, "script")
           /\ ~HasAttr(call.again, "onclick")

\* An input with a script tag, an onclick attribute and an id attribute on an
\* allowed element has been formatted, and the allowed element is in the output.
C12_Witness ==
    /\ call.pc = "once"
    /\ HasTag(call.input, "script")
    /\ HasAttr(call.input, "onclick")
    /\ HasAttr(call.input, "id")
    /\ HasTag(call.output, "h4")

-----------------------------------------------------------------------------
(* The Fallback Generator *)

Generated ==
    call.pc = "returned" /\ call.fn = "generate_mock_investment_advice"

\* The needle is in the lower-cased prompt (it holds no line end).
PromptHas(prompt, needle) ==
    \E i \in DOMAIN prompt : InS(needle, LowerS(prompt[i]))

PromptIsQuestion(prompt) ==
    \/ PromptHas(prompt, "?")
    \/ \E q \in QuestionWords : PromptHas(prompt, q)

HasLine(t, l) == \E i \in DOMAIN t : t[i] = l

HeadingTags == {"h1", "h2", "h3", "h4", "h5", "h6"}

\* C13: for every prompt string the Fallback Generator returns a text that
\* is not empty and holds at least one heading element and at least one
\* paragraph element, on the question branch and on the template branch.
C13_GeneratorTotal ==
    Generated =>
        /\ ~IsEmptyText(call.output)
        /\ \E h \in HeadingTags : HasTag(call.output, h)
        /\ HasTag(call.output, "p")

\* A question that names no topic and no risk profile has been answered.
C13_Witness ==
    /\ Generated
    /\ call.input = Txt("what now?")
    /\ HasLine(call.output, UniqueStrategyHeading)

\* The lines that carry the fixed-income allocation of the conservative
\* profile: utils.py 347 in the template, utils.py 258 in the answer about
\* retirement.
ConservativeTemplateAllocation == "    <strong>Fixed Income Investments (60-70%)</strong>"

ConservativeRetirementAllocation == TopicAdvice("retirement", "conservative")[2]

ConservativeTemplateHeading ==
    "<h2 class=\"advice-heading\">Personalized Investment Advice - Conservative Profile</h2>"

\* C14 as stated: for every prompt containing "conservative" the output
\* includes the conservative profile's fixed-income allocation with its
\* percentage, question or not, whichever the topics.
C14_AlwaysAllocationParagraph ==
    Generated /\ PromptHas(call.input, "conservative") =>
        \/ HasLine(call.output, ConservativeTemplateAllocation)
        \/ HasLine(call.output, ConservativeRetirementAllocation)

\* C14: for every prompt containing "conservative" the Fallback Generator
\* classifies the risk profile as conservative.  When the prompt is not a
\* question the output is the conservative template with its fixed-income
\* allocation (60-70%); when it is a question the output holds the
\* conservative fixed-income allocation paragraph (70%) exactly when it has a
\* section on retirement.
C14_ConservativeAllocation ==
    Generated /\ PromptHas(call.input, "conservative") =>
        /\ RiskProfileOf(PromptHits(call.input)) = "conservative"
        /\ ~PromptIsQuestion(call.input) =>
               /\ HasLine(call.output, ConservativeTemplateHeading)
               /\ HasLine(call.output, ConservativeTemplateAllocation)
        /\ PromptIsQuestion(call.input) =>
               /\ HasLine(call.output, ConservativeRetirementAllocation)
                  <=> HasLine(call.output, "<h4>Retirement Planning</h4>")
               /\ \A r \in RiskProfiles \ {"conservative"} :
                      ~HasLine(call.output, TopicAdvice("retirement", r)[2])

\* A prompt that names conservative before aggressive and is no question has
\* been answered with the conservative template.
C14_Witness ==
    /\ Generated
    /\ call.input = Txt("conservative or aggressive")
    /\ HasLine(call.output, ConservativeTemplateAllocation)

\* utils.py 256-316: the title of the section of each topic
section_titles ==
    [retirement |-> "Retirement Planning",
     stocks |-> "Stock Market Investments",
     mutual_funds |-> "Mutual Fund Strategy",
     real_estate |-> "Real Estate Investments",
     tax |-> "Tax-Efficient Investing",
     debt |-> "Fixed Income Strategy",
     gold |-> "Gold Investments",
     international |-> "International Diversification",
     crypto |-> "Cryptocurrency Considerations",
     emergency |-> "Emergency Fund Strategy"]

\* The topics with a keyword in the prompt, in the order of the topic table
MatchedTopics(prompt) ==
    LET hit(t) == \E k \in DOMAIN t.keywords : PromptHas(prompt, t.keywords[k])
    IN SelectSeq(topics, hit)

\* The h4 lines of the text, in order
SectionHeadings(t) ==
    LET h4(l) == StartsWithS(l, "<h4>") IN SelectSeq(t, h4)

\* C15: for a prompt phrased as a question that matches topics, the output
\* has one section per matched topic, in the order of the topic table, each
\* under the title of its topic (and then the unique strategy); a question
\* containing "retirement" has the section "Retirement Planning".
C15_SectionPerTopic ==
    Generated /\ PromptIsQuestion(call.input) =>
        /\ MatchedTopics(call.input) # <<>> =>
               SectionHeadings(call.output) =
                   [k \in DOMAIN MatchedTopics(call.input) |->
                       "<h4>" \o section_titles[MatchedTopics(call.input)[k].topic]
                       \o "</h4>"]
                   \o <<UniqueStrategyHeading>>
        /\ PromptHas(call.input, "retirement") =>
               HasLine(call.output, "<h4>Retirement Planning</h4>")

\* A question that names gold, tax and bonds in this order has been answered
\* with three sections and the unique strategy.
C15_Witness ==
    /\ Generated
    /\ call.input = Txt("Why gold and tax and bonds?")
    /\ Len(SectionHeadings(call.output)) = Len(MatchedTopics(call.input)) + 1
    /\ Len(MatchedTopics(call.input)) = 3

-----------------------------------------------------------------------------
(* One-shot advice, end to end *)

\* C16: for a profile with risk_tolerance 1, whatever its name and
\* occupation, one-shot advice generation with the remote endpoint unreachable
\* stores an InvestmentAdvice whose content holds the allocation template of
\* the conservative profile and whose title is "Investment Advice: ... for
\* <name>".
C16_ConservativeEndToEnd ==
    \A i \in DOMAIN InvestmentAdvice :
        LET Holds(row, profile) ==
                (/\ row.request \in Reqs
                 /\ req[row.request].outcome.kind = "ConnectionError"
                 /\ profile # <<>>
                 /\ profile[1].risk_tolerance = "1")
                => /\ HasLine(row.content, ConservativeTemplateAllocation)
                   /\ StartsWithS(row.title, "Investment Advice: ")
                   /\ EndsWithS(row.title, " for " \o profile[1].name)
        IN Holds(InvestmentAdvice[i], ProfileOf(InvestmentAdvice[i].user))

-----------------------------------------------------------------------------
(* The profile views *)

ProfilesOf(user) == {p \in FinancialProfile : p.user = user}

\* The message of the rule that the amounts break, the rule on expenses
\* first; <<>> when they break none
BrokenRule(data) ==
    IF data.monthly_expenses > data.monthly_income
    THEN <<"Monthly expenses cannot be greater than monthly income">>
    ELSE IF data.monthly_savings > data.monthly_income - data.monthly_expenses
    THEN <<"Monthly savings cannot be greater than (income - expenses)">>
    ELSE <<>>

\* Request r takes its first step, as a create or as an update request.
Submits(r) ==
    /\ req[r].pc = "new"
    /\ req'[r].kind \in {"create", "update"}

\* The form of r gets as far as its validation: a create request of a user
\* without a profile, an update request of a user with one.
Validates(r) ==
    /\ Submits(r)
    /\ req'[r].kind = "create" <=> ProfileOf(req'[r].user) = <<>>

\* C17: every stored FinancialProfile satisfies monthly_expenses <=
\* monthly_income and monthly_savings <= monthly_income - monthly_expenses
\* after any sequence of create and update requests, zero income and zero
\* expenses included; a submission that breaks a rule is rejected with the
\* message of that rule and leaves the stored profiles unchanged.
C17_AmountsValid ==
    /\ [](\A p \in FinancialProfile : BrokenRule(p) = <<>>)
    /\ [][\A r \in Reqs :
             (Submits(r) /\ BrokenRule(req'[r].form[1]) # <<>>)
             => /\ req'[r].pc = "done"
                /\ FinancialProfile' = FinancialProfile
                /\ Validates(r) => /\ req'[r].status = 200
                                   /\ req'[r].error = BrokenRule(req'[r].form[1])[1]]_vars

\* A submission with income zero and expenses above it, which the form's own
\* clean lets through, has been rejected with the message on expenses.
C17_Witness ==
    \E r \in Reqs :
        /\ req[r].pc = "done"
        /\ req[r].kind = "create"
        /\ req[r].form # <<>>
        /\ req[r].form[1].monthly_income = 0
        /\ req[r].form[1].monthly_expenses > 0
        /\ req[r].status = 200
        /\ req[r].error = "Monthly expenses cannot be greater than monthly income"

\* C18: every stored FinancialProfile satisfies annual_income =
\* monthly_income * 12 and savings = monthly_savings * 12 after any sequence
\* of create and update requests.
C18_DerivedStayDerived ==
    \A p \in FinancialProfile :
        /\ p.annual_income = p.monthly_income * 12
        /\ p.savings = p.monthly_savings * 12

\* C19: a user never has more than one FinancialProfile, also when two
\* create requests of the same user interleave; a step of a create request
\* of a user who has a profile ends the request and changes no stored row and
\* creates no advice.
C19_OneProfilePerUser ==
    /\ [](\A user \in Requesters : Cardinality(ProfilesOf(user)) <= 1)
    /\ [][\A r \in Reqs :
             (/\ req'[r] # req[r]
              /\ req'[r].kind = "create"
              /\ req[r].pc \in {"new", "save"}
              /\ ProfileOf(req'[r].user) # <<>>)
             => /\ req'[r].pc = "done"
                /\ req'[r].adviceId = 0
                /\ UNCHANGED <<FinancialProfile, InvestmentAdvice, ChatMessage>>]_vars

\* Two create requests of the same user have both passed the lookup; one has
\* stored the profile, the other has ended in the validation error of its
\* save.
C19_Witness ==
    \E r \in Reqs, q \in Reqs :
        /\ r # q
        /\ req[r].kind = "create" /\ req[q].kind = "create"
        /\ req[r].user = req[q].user
        /\ req[r].pc \in {"advise", "done"} /\ req[r].calls = 1
        /\ req[q].pc = "done" /\ req[q].error = "ValidationError"
        /\ Cardinality(ProfilesOf(req[r].user)) = 1

-----------------------------------------------------------------------------
(* The history views *)

Listed ==
    call.pc = "returned" /\ call.fn \in {"get_chat_history", "advice_history"}

\* The stored time of a listed row
TimeOf(row) ==
    IF call.fn = "get_chat_history" THEN row.timestamp ELSE row.created_at

\* The rows of the table that the user who asks owns
OwnRows ==
    LET Own(rows) == {rows[i] : i \in {j \in DOMAIN rows : rows[j].user = call.input[1]}}
    IN Own(IF call.fn = "get_chat_history" THEN ChatMessage ELSE InvestmentAdvice)

\* C20 as stated: chat history lists the user's messages with strictly
\* increasing timestamps and advice history lists the user's advice with
\* strictly decreasing creation times, for every stored set of rows.
C20_StrictOrder ==
    Listed =>
        \A i \in 1..(Len(call.rows) - 1) :
            IF call.fn = "get_chat_history"
            THEN TimeOf(call.rows[i]) < TimeOf(call.rows[i + 1])
            ELSE TimeOf(call.rows[i]) > TimeOf(call.rows[i + 1])

\* C20: chat history lists each of the user's messages once, and no other
\* row, with timestamps that never decrease, and advice history each of the
\* user's advice once with creation times that never increase; the order is
\* strict when the stored times of the user's rows differ from each other.
\* Chat history shows each message with its type, its content and its
\* timestamp cut to the second.
C20_HistoryOrder ==
    Listed =>
        /\ {call.rows[i] : i \in DOMAIN call.rows} = OwnRows
        /\ Len(call.rows) = Cardinality(OwnRows)
        /\ \A i \in 1..(Len(call.rows) - 1) :
               IF call.fn = "get_chat_history"
               THEN TimeOf(call.rows[i]) <= TimeOf(call.rows[i + 1])
               ELSE TimeOf(call.rows[i]) >= TimeOf(call.rows[i + 1])
        /\ (\A a \in OwnRows, b \in OwnRows : a # b => TimeOf(a) # TimeOf(b))
               => C20_StrictOrder
        /\ call.fn = "get_chat_history" =>
               /\ Len(call.history) = Len(call.rows)
               /\ \A i \in DOMAIN call.history :
                      /\ call.history[i].type = call.rows[i].message_type
                      /\ call.history[i].content = call.rows[i].content
                      /\ call.history[i].timestamp = strftime(call.rows[i].timestamp)

\* Chat history has listed three messages of the user, two of them stored
\* with the same timestamp, the later created one first.
C20_Witness ==
    /\ Listed
    /\ call.fn = "get_chat_history"
    /\ Len(call.rows) = 3
    /\ \E i \in 1..2 :
        /\ call.rows[i].timestamp = call.rows[i + 1].timestamp
        /\ call.rows[i].id > call.rows[i + 1].id

-----------------------------------------------------------------------------
(* Retries, the chat window and failed turns *)

\* The request got as far as the call of the Model Client.
Queried(r) ==
    \/ req[r].pc \in {"respond", "persist"}
    \/ /\ req[r].pc = "done"
       /\ IF req[r].kind = "chat" THEN req[r].userMsgId # 0
          ELSE req[r].location # "create_profile"

\* The statement that every advice or chat request calls query_ollama exactly
\* once: a request that is rejected before the call does not call it.
C23_EveryRequestQueriesOnce ==
    \A r \in Reqs : req[r].pc = "done" => req[r].calls = 1

\* C23: a call of query_ollama sends one POST and calls the Fallback Generator
\* at most once, and not at all when the remote text is returned; a request
\* calls query_ollama once when it gets as far as the call and never
\* otherwise, so a remote call that failed is not made again in the request.
C23_NoRetries ==
    \A r \in Reqs :
        /\ req[r].calls = (IF Queried(r) THEN 1 ELSE 0)
        /\ req[r].posts = req[r].calls
        /\ req[r].mocks <= req[r].calls
        /\ Queried(r) => (req[r].mocks = 0 <=> HasRemoteText(req[r].outcome))

\* One finished request whose one POST failed and whose text is that of the
\* Fallback Generator, called once, and one that was rejected before the call.
C23_Witness ==
    \E r \in Reqs, q \in Reqs :
        /\ req[r].pc = "done" /\ req[r].outcome.kind = "ConnectionError"
        /\ req[r].calls = 1 /\ req[r].posts = 1 /\ req[r].mocks = 1
        /\ req[r].status \in {200, 302}
        /\ req[q].pc = "done" /\ req[q].calls = 0 /\ req[q].status \in {400, 404, 302}

\* The ids of the rows of the window of request r.
WindowOf(r) == {req[r].window[i] : i \in DOMAIN req[r].window}

\* C24: the window of stored messages that a chat turn puts into its prompt
\* as history holds prior turns only: the user message of the turn itself is
\* not among its rows.
C24_WindowPriorOnly ==
    \A r \in Reqs :
        (req[r].kind = "chat" /\ req[r].calls > 0) => req[r].userMsgId \notin WindowOf(r)

\* C29: a chat request that ends with status 400, 404 or 500 has left no
\* ChatMessage row behind.
C29_ErrorLeavesNothing ==
    \A r \in Reqs :
        (req[r].kind = "chat" /\ req[r].pc = "done" /\ req[r].status \in {400, 404, 500})
        => ChatRowsOf(r) = {}

-----------------------------------------------------------------------------
(* What an update stores *)

\* C28: the step of update_profile that accepts a form and redirects to the
\* dashboard leaves the profile of the user stored with the monthly_income,
\* the monthly_expenses and the monthly_savings that were submitted.
C28_UpdateStoresSubmitted ==
    [][\A r \in Reqs :
          (/\ req[r].pc = "save"
           /\ req[r].kind = "update"
           /\ req'[r].pc = "done"
           /\ req'[r].location = "dashboard")
          => \E p \in FinancialProfile' :
                /\ p.user = req[r].user
                /\ p.monthly_income = req[r].form[1].monthly_income
                /\ p.monthly_expenses = req[r].form[1].monthly_expenses
                /\ p.monthly_savings = req[r].form[1].monthly_savings]_vars

-----------------------------------------------------------------------------
(* The risk class and the place of the custom sections *)

\* The risk class that the prompt text names.
NamedRisk(prompt) ==
    IF PromptHas(prompt, "conservative") \/ PromptHas(prompt, "low risk")
    THEN "conservative"
    ELSE IF PromptHas(prompt, "aggressive") \/ PromptHas(prompt, "high risk")
    THEN "aggressive"
    ELSE "moderate"

\* The topics of the sections of an answer to a question, by their titles.
TopicsShown(t) ==
    LET titled(h) == \E k \in DOMAIN topics :
                         h = "<h4>" \o section_titles[topics[k].topic] \o "</h4>"
        TopicOf(h) == (CHOOSE k \in DOMAIN topics :
                          h = "<h4>" \o section_titles[topics[k].topic] \o "</h4>")
        Named(hs) == [k \in DOMAIN hs |-> topics[TopicOf(hs[k])].topic]
    IN Named(SelectSeq(SectionHeadings(t), titled))

\* The text is written for the risk class: it is a template document with
\* the heading of the template of the class, or an answer to a question
\* whose sections are those of the class on their topics.
WrittenFor(t, risk_profile) ==
    LET part(topic) == TopicAdvice(topic, risk_profile) IN
    IF HasLine(t, QuestionHeading)
    THEN SubSeq(t, 3, Len(t) - 2) = FlatParts(part, TopicsShown(t))
    ELSE \E i \in DOMAIN advice[risk_profile] :
             /\ StartsWithS(advice[risk_profile][i], "<h2")
             /\ HasLine(t, advice[risk_profile][i])

\* The text is written for no other risk class, unless the sections of that
\* class on the topics of the text are the same.
WrittenOnlyFor(t, risk_profile) ==
    \A other \in RiskProfiles \ {risk_profile} :
        WrittenFor(t, other)
        => /\ HasLine(t, QuestionHeading)
           /\ \A k \in DOMAIN TopicsShown(t) :
                  TopicAdvice(TopicsShown(t)[k], other)
                      = TopicAdvice(TopicsShown(t)[k], risk_profile)

\* C26: the risk class of a response is fixed by the prompt text alone,
\* whatever the random draws: conservative if the lower-cased prompt holds
\* "conservative" or "low risk", otherwise aggressive if it holds "aggressive"
\* or "high risk", otherwise moderate; the response is written for that one
\* class, also when the prompt names conservative and aggressive.
C26_RiskFromPrompt ==
    Generated =>
        /\ NamedRisk(call.input) \in RiskProfiles
        /\ WrittenFor(call.output, NamedRisk(call.input))
        /\ WrittenOnlyFor(call.output, NamedRisk(call.input))

\* A question that names aggressive before conservative has been answered
\* for the conservative class.
C26_Witness ==
    /\ Generated
    /\ call.input = Txt("aggressive, not conservative, in bonds?")
    /\ WrittenFor(call.output, "conservative")
    /\ ~WrittenFor(call.output, "aggressive")

\* The places of the lines of t that satisfy Test.
Places(t, Test(_)) == {i \in DOMAIN t : Test(t[i])}

\* The line with the date and then the custom sections of the topics, in the
\* order of the topics.
CustomBlock(mentioned) == <<OutlookLine>> \o FlatParts(CustomSection, mentioned)

\* The custom blocks that a prompt can get: that of the topics it names or,
\* when it names none, that of two topics drawn for its risk class.
CustomBlocks(prompt) ==
    IF MatchedTopics(prompt) # <<>>
    THEN {CustomBlock([k \in DOMAIN MatchedTopics(prompt) |-> MatchedTopics(prompt)[k].topic])}
    ELSE {CustomBlock(<<potential_topics(NamedRisk(prompt))[s[1]],
                        potential_topics(NamedRisk(prompt))[s[2]]>>) : s \in Samples}

IsUniqueStrategy(l) == StartsWithS(l, "<p><strong>Unique Strategy #")

\* C27 as stated: on the template branch the custom sections come before the
\* closing list of the template.
C27_BeforeClosingList ==
    (Generated /\ ~PromptIsQuestion(call.input)) =>
        LET IsOutlook(l) == l = OutlookLine
            OpensList(l) == l = "<ul class=\"advice-list\">"
        IN \A i \in Places(call.output, IsOutlook) :
               \A j \in Places(call.output, OpensList) : i < j

\* C27: on the template branch the response is the template of the risk class
\* with its own lines in their order, the custom sections (the date line,
\* then retirement, then tax, as far as they are among the topics) right
\* after the end of its closing list and before its closing paragraph, and
\* the unique strategy right after its closing paragraph, after the custom
\* sections.
C27_CustomAfterClosingList ==
    (Generated /\ ~PromptIsQuestion(call.input)) =>
        LET template == advice[NamedRisk(call.input)]
            out == call.output
            EndsList(l) == l = "</ul>"
            EndsParagraph(l) == InS("</p>", l) /\ ~IsUniqueStrategy(l)
            list_end == MaxOf(Places(template, EndsList))
            last_paragraph == MaxOf(Places(template, EndsParagraph))
        IN \E block \in CustomBlocks(call.input) :
              /\ Len(out) = Len(template) + Len(block) + 1
              /\ SubSeq(out, 1, list_end) = SubSeq(template, 1, list_end)
              /\ SubSeq(out, list_end + 1, list_end + Len(block)) = block
              /\ SubSeq(out, list_end + Len(block) + 1, last_paragraph + Len(block))
                     = SubSeq(template, list_end + 1, last_paragraph)
              /\ IsUniqueStrategy(out[last_paragraph + Len(block) + 1])
              /\ SubSeq(out, last_paragraph + Len(block) + 2, Len(out))
                     = SubSeq(template, last_paragraph + 1, Len(template))
              /\ list_end < last_paragraph

\* A prompt that names gold and tax and is no question has been answered with
\* the moderate template and the section on tax in it.
C27_Witness ==
    /\ Generated
    /\ call.input = Txt("gold, then tax")
    /\ ~PromptIsQuestion(call.input)
    /\ HasLine(call.output, CustomSection("tax")[1])
    /\ \E i \in DOMAIN call.output : IsUniqueStrategy(call.output[i])

-----------------------------------------------------------------------------
(* The outer container of formatted text *)

\* The text has a wrapper opening after its first character.
NestedWrapper(t) ==
    \E i \in DOMAIN t :
        InS(WrapperOpen, IF i = 1 THEN SubSeq(t[1], 2, Len(t[1])) ELSE t[i])

\* The text is in one outer container, with no further one inside it.
OneOuterContainer(t) ==
    /\ StartsWithT(t, WrapperOpen)
    /\ EndsWithT(t, WrapperClose)
    /\ ~NestedWrapper(t)

\* C25: for every input, including input that is wrapped once or more than
\* once already, format_investment_advice returns a text that starts with the
\* opening tag of the wrapper, ends with its closing tag and has no further
\* wrapper container inside.
C25_OneOuterContainer ==
    call.fn = "format_investment_advice" =>
        /\ call.pc \in {"once", "twice"} => OneOuterContainer(call.output)
        /\ call.pc = "twice" => OneOuterContainer(call.again)

-----------------------------------------------------------------------------
(* Stored rows and the maintenance scripts *)

\* The three tables have been emptied.
DataReset ==
    /\ ChatMessage' = <<>>
    /\ InvestmentAdvice' = <<>>
    /\ FinancialProfile' = {}

\* C22: a ChatMessage is immutable once created: no step of the program (chat
\* turn, history fetch, advice generation, backfill script) changes the type
\* or the content of a stored ChatMessage, and a message disappears only when
\* the data are reset.
C22_ChatMessageImmutable ==
    [][\A i \in DOMAIN ChatMessage :
           IF \E j \in DOMAIN ChatMessage' : ChatMessage'[j].id = ChatMessage[i].id
           THEN \A j \in DOMAIN ChatMessage' :
                    ChatMessage'[j].id = ChatMessage[i].id
                    => /\ ChatMessage'[j].message_type = ChatMessage[i].message_type
                       /\ ChatMessage'[j].content = ChatMessage[i].content
           ELSE DataReset]_vars

\* No stored advice and no stored advisor message begins with the opening tag
\* of the outer container.
StoredWrapperFree ==
    /\ \A i \in DOMAIN InvestmentAdvice :
           ~StartsWithT(InvestmentAdvice[i].content, WrapperOpen)
    /\ \A i \in DOMAIN ChatMessage :
           ChatMessage[i].message_type = "advisor"
           => ~StartsWithT(ChatMessage[i].content, WrapperOpen)

\* The messages that users typed are the same after the step, unless the
\* data are reset.
UserMessagesKept ==
    \A i \in DOMAIN ChatMessage :
        ChatMessage[i].message_type = "user"
        => \/ DataReset
           \/ i \in DOMAIN ChatMessage' /\ ChatMessage'[i] = ChatMessage[i]

\* C30: stored advice content is free of the wrapper in every reachable
\* state: after any sequence of advice generations, chat turns and runs of
\* the backfill script no InvestmentAdvice content and no advisor ChatMessage
\* content begins with the opening tag of the outer container, and the
\* backfill script leaves the messages typed by users as they are.
C30_StoredWrapperFree ==
    []StoredWrapperFree /\ [][UserMessagesKept]_vars

-----------------------------------------------------------------------------
(* Ownership *)

\* The rows of the table that the user owns.
OwnedBy(rows, user) == FilterUser(rows, user)

\* views.py 226-276: every prompt of a chat turn of the user with the
\* message "hi", once the message has been saved; profile is what
\* FinancialProfile.objects.get(user=request.user) gives.
ChatPromptsOf(profile, chat_rows, user) ==
    IF profile = <<>> THEN {}
    ELSE {chat_prompt(profile[1], ChatHistoryOf(recent), Txt("hi")) :
             recent \in recent_messages(chat_rows, user)}

\* views.py 351-417: every prompt of a one-shot advice for the user
AdvicePromptsOf(profile, advice_rows, user) ==
    IF profile = <<>> THEN {}
    ELSE {enhanced_prompt(format_prompt(profile_data(profile[1])),
                          market_perspective, focus_area,
                          AdviceCount(advice_rows, user)) :
             market_perspective \in PerspectivesDrawn,
             focus_area \in FocusDrawn(profile[1])}

\* All that the requests of the user can return and all that can be put
\* into the prompts of the user, with this profile and these rows stored.
AnswersOf(profile, advice_rows, chat_rows, user) ==
    [dashboard |-> dashboard(profile, advice_rows, user),
     view_advice |-> [advice_id \in 1..MaxAdviceId |->
                         view_advice(advice_rows, chat_rows, advice_id, user)],
     advice_history |-> advice_list(advice_rows, user),
     get_chat_history |-> {history(chat) : chat \in chat_messages(chat_rows, user)},
     chat_prompt |-> ChatPromptsOf(profile, chat_rows, user),
     advice_prompt |-> AdvicePromptsOf(profile, advice_rows, user)]

Answers(user) == AnswersOf(ProfileOf(user), InvestmentAdvice, ChatMessage, user)

\* The rows and the profile of the user among these.
OwnOf(profiles, advice_rows, chat_rows, user) ==
    [advice |-> OwnedBy(advice_rows, user),
     chat |-> OwnedBy(chat_rows, user),
     profile |-> {p \in profiles : p.user = user}]

Own(user) == OwnOf(FinancialProfile, InvestmentAdvice, ChatMessage, user)

\* The answers are those that the rows of the user alone give; the advice of
\* another user is not found; a view that has answered shows rows of the
\* user who asked only.
OwnRowsOnly ==
    /\ \A user \in Viewers :
        /\ Answers(user) = AnswersOf(ProfileOf(user), Own(user).advice, Own(user).chat, user)
        /\ \A p \in 1..Len(ProfileOf(user)) : ProfileOf(user)[p] \in Own(user).profile
        /\ \A i \in DOMAIN InvestmentAdvice :
               InvestmentAdvice[i].user # user
               => view_advice(InvestmentAdvice, ChatMessage, InvestmentAdvice[i].id, user)
                      = {Shown(404, <<>>, <<>>, <<>>)}
    /\ call.pc = "returned" /\ call.fn \in {view.fn : view \in ViewCalls} =>
        /\ \A i \in DOMAIN call.rows : call.rows[i].user = call.input[1]
        /\ \A p \in DOMAIN call.profile : call.profile[p].user = call.input[1]
        /\ call.fn = "view_advice" =>
               /\ \A i \in DOMAIN call.history : call.history[i].user = call.input[1]
               /\ (\E i \in DOMAIN InvestmentAdvice :
                       /\ InvestmentAdvice[i].id = call.advice_id
                       /\ InvestmentAdvice[i].user # call.input[1])
                  => call.status = 404

\* A step that leaves the rows of the user as they are leaves the answers of
\* the user as they are.
OthersChangeNothing ==
    \A user \in Viewers :
        OwnOf(FinancialProfile', InvestmentAdvice', ChatMessage', user) = Own(user)
        => AnswersOf(ProfileOf(user)', InvestmentAdvice', ChatMessage', user)
               = Answers(user)

\* C21: no cross-user visibility: what the requests of a user return
\* (dashboard, advice detail, advice history, chat history) and what is put
\* into the prompts of that user depends on the rows owned by that user only;
\* a request for the advice detail of an advice of another user yields
\* not-found; a change of the rows of another user never changes the results
\* of the first user.
C21_OwnRowsOnly ==
    []OwnRowsOnly /\ [][OthersChangeNothing]_vars

\* u2 has asked for the detail of the advice of u1 and was answered
\* not-found, and u1 has had a chat turn or an advice stored since the
\* system started.
C21_Witness ==
    /\ call.pc = "returned"
    /\ call.fn = "view_advice"
    /\ call.input = Txt("u2")
    /\ call.status = 404
    /\ \E i \in DOMAIN InvestmentAdvice :
           InvestmentAdvice[i].id = call.advice_id /\ InvestmentAdvice[i].user = "u1"
    /\ req[1].pc = "done"
    /\ req[1].user = "u1"
    /\ ChatRowsOf(1) \cup AdviceRowsOf(1) # {}

====
